---- MODULE Spec2Model ----
(***************************************************************************)
(* Model of the moo_system_v1 contracts.                                   *)
(*                                                                         *)
(*   moo    the fungible ledger.  The repository holds it twice:           *)
(*          contracts/moo/model.rs + logic.rs (owner, pause switch,        *)
(*          minters, burn, safe-approve) and contracts/moo/lib.rs (the     *)
(*          crate root: supply, balances and allowances only).             *)
(*   nfmoo  the indexed ownership registry, contracts/nfmoo/lib.rs         *)
(*          (model.rs + logic.rs hold the same code).                      *)
(*                                                                         *)
(* Every #[ink(message)] is one operator from (storage, caller, arguments) *)
(* to (storage, result).  The writes are applied in the order the code     *)
(* makes them, and an Err returned after a write keeps that write: the     *)
(* messages are modelled as the methods they are (and as #[ink::test]      *)
(* runs them); a rollback by the host is not part of the source.           *)
(* Emitted events go to the host and are not part of the storage.          *)
(***************************************************************************)
EXTENDS Integers, FiniteSets, Sequences, TLC

\* ---------------------------------------------------------------- bounds

\* Balance is u128: the model keeps a width, scaled. Every amount is in 0..AmountMax.
AmountMax == 2

\* Token ids are 0 .. MaxId-1: a mint_n that would take next_id past MaxId is not explored.
MaxId == 3
\* mint_n is called with 0 .. MaxBatch and with MAX_PER_CALL + 1.
MaxBatch == 2
\* The constructor is called with None and with Some(MaxSupply).
MaxSupply == 2

Accounts == {"alice", "bob", "charlie"}
\* The caller of the constructor.
Deployer == "alice"
Amounts == 0 .. AmountMax
\* The accounts the explored calls name as minter_acc and as spender_acc.
MinterCandidates == Accounts
Spenders == {"bob"}
\* The accounts the explored registry calls name as minter_acc, operator_acc and
\* approved_acc.
NfMinterCandidates == {"bob"}
Operators == {"charlie"}
\* The callers of the explored set_approval_for_all: an item holder, and the
\* operator itself (refused as SameAccount).
Grantors == {"bob", "charlie"}
Approvees == {"charlie"}
TokenIds == 0 .. MaxId - 1

\* ------------------------------------------------- ink::storage::Mapping

\* The registry's Mappings are partial functions: the domain is the set of stored
\* keys, get is m[k] under k \in DOMAIN m.
EmptyMap == << >>
Has(m, k) == k \in DOMAIN m
Insert(m, k, v) == [x \in (DOMAIN m) \cup {k} |-> IF x = k THEN v ELSE m[x]]
Remove(m, k) == [x \in (DOMAIN m) \ {k} |-> m[x]]

\* The ledger reads its Mappings by get(k).unwrap_or(default) only and never removes
\* a key, so each is the total function k |-> get(k).unwrap_or(default); insert is
\* EXCEPT.
DefaultMap(keys, d) == [k \in keys |-> d]
Get(m, k, d) == m[k]
Put(m, k, v) == [m EXCEPT ![k] = v]

\* A message's outcome: the storage it leaves and the Result it returns.
Ret(s, r) == [st |-> s, res |-> r]

VARIABLES
    moo,      \* storage of the ledger of moo/model.rs + logic.rs
    basic,    \* storage of the ledger of moo/lib.rs
    nf        \* storage of the registry of nfmoo/lib.rs

vars == <<moo, basic, nf>>

\* ------------------------------------------------ moo/logic.rs: the ledger

\* Moo::new
MooNew(caller) ==
    [owner_acc |-> caller,
     paused_flag |-> FALSE,
     is_minter |-> DefaultMap(Accounts, FALSE),
     total_supply |-> 0,
     balances |-> DefaultMap(Accounts, 0),
     allowances |-> DefaultMap(Accounts \X Accounts, 0),
     storage_ver_u32 |-> 1]
\* only_owner without its test of the caller.
only_owner_skipped(s, caller) == "Ok"

only_owner(s, caller) == IF caller # s.owner_acc THEN "NotOwner" ELSE "Ok"

\* when_not_paused without its test of the flag.
when_not_paused_skipped(s) == "Ok"

when_not_paused(s) == IF s.paused_flag THEN "Paused" ELSE "Ok"
\* set_pause that flips the flag whatever its argument.
set_pause_toggle(s, caller, paused_flag) ==
    IF only_owner(s, caller) # "Ok" THEN Ret(s, only_owner(s, caller))
    ELSE Ret([s EXCEPT !.paused_flag = ~s.paused_flag], "Ok")

set_pause(s, caller, paused_flag) ==
    IF only_owner(s, caller) # "Ok" THEN Ret(s, only_owner(s, caller))
    ELSE Ret([s EXCEPT !.paused_flag = paused_flag], "Ok")

set_minter(s, caller, minter_acc, enabled_flag) ==
    IF only_owner(s, caller) # "Ok" THEN Ret(s, only_owner(s, caller))
    ELSE Ret([s EXCEPT !.is_minter = Put(@, minter_acc, enabled_flag)], "Ok")

total_supply(s) == s.total_supply

balance_of(s, owner_acc) == Get(s.balances, owner_acc, 0)

allowance(s, owner_acc, spender_acc) == Get(s.allowances, <<owner_acc, spender_acc>>, 0)
\* mint_internal with wrapping additions in place of the checked ones.
mint_internal_wrapping(s, to_acc, amount_val) ==
    Ret([s EXCEPT !.total_supply = (s.total_supply + amount_val) % (AmountMax + 1),
                  !.balances = Put(@, to_acc,
                                   (Get(s.balances, to_acc, 0) + amount_val) % (AmountMax + 1))],
        "Ok")
\* mint_internal that credits the balance and leaves total_supply as it was.
mint_internal_keeps_supply(s, to_acc, amount_val) ==
    IF s.total_supply + amount_val > AmountMax THEN Ret(s, "Overflow")
    ELSE LET to_bal == Get(s.balances, to_acc, 0)
         IN  IF to_bal + amount_val > AmountMax THEN Ret(s, "Overflow")
             ELSE Ret([s EXCEPT !.balances = Put(@, to_acc, to_bal + amount_val)], "Ok")

\* total_supply is written before the balance is read and checked.
mint_internal(s, to_acc, amount_val) ==
    IF s.total_supply + amount_val > AmountMax THEN Ret(s, "Overflow")
    ELSE LET s1 == [s EXCEPT !.total_supply = s.total_supply + amount_val]
             to_bal == Get(s1.balances, to_acc, 0)
         IN  IF to_bal + amount_val > AmountMax THEN Ret(s1, "Overflow")
             ELSE Ret([s1 EXCEPT !.balances = Put(@, to_acc, to_bal + amount_val)], "Ok")
\* move_balance that credits the destination without debiting the source.
move_balance_no_debit(s, from_acc, to_acc, amount_val) ==
    LET from_bal == Get(s.balances, from_acc, 0)
        to_bal == Get(s.balances, to_acc, 0)
    IN  IF from_bal < amount_val THEN Ret(s, "InsufficientBalance")
        ELSE IF to_bal + amount_val > AmountMax THEN Ret(s, "Overflow")
        ELSE Ret([s EXCEPT !.balances = Put(@, to_acc, to_bal + amount_val)], "Ok")

\* The source's balance is written before the destination's is read and checked.
move_balance(s, from_acc, to_acc, amount_val) ==
    LET from_bal == Get(s.balances, from_acc, 0)
    IN  IF from_bal < amount_val THEN Ret(s, "InsufficientBalance")
        ELSE LET s1 == [s EXCEPT !.balances = Put(@, from_acc, from_bal - amount_val)]
                 to_bal == Get(s1.balances, to_acc, 0)
             IN  IF to_bal + amount_val > AmountMax THEN Ret(s1, "Overflow")
                 ELSE Ret([s1 EXCEPT !.balances = Put(@, to_acc, to_bal + amount_val)], "Ok")
\* mint without its test of is_minter.
mint_by_anyone(s, caller, amount_val) ==
    IF when_not_paused(s) # "Ok" THEN Ret(s, when_not_paused(s))
    ELSE IF amount_val = 0 THEN Ret(s, "AmountZero")
    ELSE mint_internal(s, caller, amount_val)

mint(s, caller, amount_val) ==
    IF when_not_paused(s) # "Ok" THEN Ret(s, when_not_paused(s))
    ELSE IF amount_val = 0 THEN Ret(s, "AmountZero")
    ELSE IF ~Get(s.is_minter, caller, FALSE) THEN Ret(s, "Unauthorized")
    ELSE mint_internal(s, caller, amount_val)

\* burn that forgets total_supply.
burn_keeps_supply(s, caller, amount_val) ==
    IF when_not_paused(s) # "Ok" THEN Ret(s, when_not_paused(s))
    ELSE IF amount_val = 0 THEN Ret(s, "AmountZero")
    ELSE LET from_bal == Get(s.balances, caller, 0)
         IN  IF from_bal < amount_val THEN Ret(s, "InsufficientBalance")
             ELSE Ret([s EXCEPT !.balances = Put(@, caller, from_bal - amount_val)], "Ok")

\* The balance is written before total_supply is checked and written.
burn(s, caller, amount_val) ==
    IF when_not_paused(s) # "Ok" THEN Ret(s, when_not_paused(s))
    ELSE IF amount_val = 0 THEN Ret(s, "AmountZero")
    ELSE LET from_bal == Get(s.balances, caller, 0)
         IN  IF from_bal < amount_val THEN Ret(s, "InsufficientBalance")
             ELSE LET s1 == [s EXCEPT !.balances = Put(@, caller, from_bal - amount_val)]
                  IN  IF s1.total_supply < amount_val THEN Ret(s1, "Overflow")
                      ELSE Ret([s1 EXCEPT !.total_supply = s1.total_supply - amount_val], "Ok")

transfer(s, caller, to_acc, amount_val) ==
    IF when_not_paused(s) # "Ok" THEN Ret(s, when_not_paused(s))
    ELSE IF amount_val = 0 THEN Ret(s, "AmountZero")
    ELSE IF caller = to_acc THEN Ret(s, "SameAccount")
    ELSE move_balance(s, caller, to_acc, amount_val)

approve(s, caller, spender_acc, amount_val) ==
    IF when_not_paused(s) # "Ok" THEN Ret(s, when_not_paused(s))
    ELSE LET current_val == Get(s.allowances, <<caller, spender_acc>>, 0)
         IN  IF current_val # 0 /\ amount_val # 0 THEN Ret(s, "AllowanceRace")
             ELSE Ret([s EXCEPT !.allowances = Put(@, <<caller, spender_acc>>, amount_val)], "Ok")

increase_allowance(s, caller, spender_acc, add_val) ==
    IF when_not_paused(s) # "Ok" THEN Ret(s, when_not_paused(s))
    ELSE LET current_val == Get(s.allowances, <<caller, spender_acc>>, 0)
         IN  IF current_val + add_val > AmountMax THEN Ret(s, "Overflow")
             ELSE Ret([s EXCEPT !.allowances =
                          Put(@, <<caller, spender_acc>>, current_val + add_val)], "Ok")
\* decrease_allowance with a checked subtraction in place of the saturating one.
decrease_allowance_checked(s, caller, spender_acc, sub_val) ==
    IF when_not_paused(s) # "Ok" THEN Ret(s, when_not_paused(s))
    ELSE LET current_val == Get(s.allowances, <<caller, spender_acc>>, 0)
         IN  IF current_val < sub_val THEN Ret(s, "Overflow")
             ELSE Ret([s EXCEPT !.allowances =
                          Put(@, <<caller, spender_acc>>, current_val - sub_val)], "Ok")

decrease_allowance(s, caller, spender_acc, sub_val) ==
    IF when_not_paused(s) # "Ok" THEN Ret(s, when_not_paused(s))
    ELSE LET current_val == Get(s.allowances, <<caller, spender_acc>>, 0)
             new_val == IF current_val < sub_val THEN 0 ELSE current_val - sub_val
         IN  Ret([s EXCEPT !.allowances = Put(@, <<caller, spender_acc>>, new_val)], "Ok")

\* transfer_from that leaves the allowance as it was.
transfer_from_keeps_allowance(s, caller, from_acc, to_acc, amount_val) ==
    IF when_not_paused(s) # "Ok" THEN Ret(s, when_not_paused(s))
    ELSE IF amount_val = 0 THEN Ret(s, "AmountZero")
    ELSE IF from_acc = to_acc THEN Ret(s, "SameAccount")
    ELSE IF Get(s.balances, from_acc, 0) < amount_val THEN Ret(s, "InsufficientBalance")
    ELSE IF Get(s.allowances, <<from_acc, caller>>, 0) < amount_val
         THEN Ret(s, "InsufficientAllowance")
    ELSE IF Get(s.balances, to_acc, 0) + amount_val > AmountMax THEN Ret(s, "Overflow")
    ELSE Ret([s EXCEPT !.balances =
                 Put(Put(@, from_acc, Get(s.balances, from_acc, 0) - amount_val),
                     to_acc, Get(s.balances, to_acc, 0) + amount_val)], "Ok")

transfer_from(s, caller, from_acc, to_acc, amount_val) ==
    IF when_not_paused(s) # "Ok" THEN Ret(s, when_not_paused(s))
    ELSE IF amount_val = 0 THEN Ret(s, "AmountZero")
    ELSE IF from_acc = to_acc THEN Ret(s, "SameAccount")
    ELSE LET from_bal == Get(s.balances, from_acc, 0)
             current_allow == Get(s.allowances, <<from_acc, caller>>, 0)
             to_bal == Get(s.balances, to_acc, 0)
         IN  IF from_bal < amount_val THEN Ret(s, "InsufficientBalance")
             ELSE IF current_allow < amount_val THEN Ret(s, "InsufficientAllowance")
             ELSE IF to_bal + amount_val > AmountMax THEN Ret(s, "Overflow")
             ELSE Ret([s EXCEPT
                         !.balances = Put(Put(@, from_acc, from_bal - amount_val),
                                             to_acc, to_bal + amount_val),
                         !.allowances = Put(@, <<from_acc, caller>>,
                                               current_allow - amount_val)], "Ok")

\* ------------------------------------------------- moo/lib.rs: the ledger

\* Moo::new
lib_new ==
    [total_supply |-> 0,
     balances |-> DefaultMap(Accounts, 0),
     allowances |-> DefaultMap(Accounts \X Accounts, 0)]

lib_mint_internal(s, to_acc, amount) ==
    IF s.total_supply + amount > AmountMax THEN Ret(s, "Overflow")
    ELSE LET s1 == [s EXCEPT !.total_supply = s.total_supply + amount]
             bal == Get(s1.balances, to_acc, 0)
         IN  IF bal + amount > AmountMax THEN Ret(s1, "Overflow")
             ELSE Ret([s1 EXCEPT !.balances = Put(@, to_acc, bal + amount)], "Ok")

lib_move_balance(s, from_acc, to_acc, amount) ==
    LET from_bal == Get(s.balances, from_acc, 0)
    IN  IF from_bal < amount THEN Ret(s, "InsufficientBalance")
        ELSE LET s1 == [s EXCEPT !.balances = Put(@, from_acc, from_bal - amount)]
                 to_bal == Get(s1.balances, to_acc, 0)
             IN  IF to_bal + amount > AmountMax THEN Ret(s1, "Overflow")
                 ELSE Ret([s1 EXCEPT !.balances = Put(@, to_acc, to_bal + amount)], "Ok")

lib_mint(s, caller, amount) ==
    IF amount = 0 THEN Ret(s, "AmountZero")
    ELSE lib_mint_internal(s, caller, amount)

lib_transfer(s, caller, to_acc, amount) ==
    IF amount = 0 THEN Ret(s, "AmountZero")
    ELSE IF caller = to_acc THEN Ret(s, "SameAccount")
    ELSE lib_move_balance(s, caller, to_acc, amount)

lib_approve(s, caller, spender_acc, amount) ==
    Ret([s EXCEPT !.allowances = Put(@, <<caller, spender_acc>>, amount)], "Ok")

\* The allowance is reduced and stored before move_balance checks the balance.
lib_transfer_from(s, caller, from_acc, to_acc, amount) ==
    IF amount = 0 THEN Ret(s, "AmountZero")
    ELSE IF from_acc = to_acc THEN Ret(s, "SameAccount")
    ELSE LET allowance_amt == Get(s.allowances, <<from_acc, caller>>, 0)
         IN  IF allowance_amt < amount THEN Ret(s, "InsufficientAllowance")
             ELSE lib_move_balance(
                      [s EXCEPT !.allowances =
                          Put(@, <<from_acc, caller>>, allowance_amt - amount)],
                      from_acc, to_acc, amount)

\* -------------------------------------------- nfmoo/lib.rs: the registry

None == << >>
Some(x) == << x >>

\* NFMoo::new
NFMooNew(caller, max_supply_opt) ==
    [owner_acc |-> caller,
     paused_flag |-> FALSE,
     is_minter |-> DefaultMap(Accounts, FALSE),
     max_supply_opt |-> max_supply_opt,
     supply_cnt |-> 0,
     next_id |-> 0,
     owner_by_id |-> EmptyMap,
     owned_count |-> DefaultMap(Accounts, 0),
     tokens_by_owner |-> EmptyMap,
     owned_index |-> EmptyMap,
     token_approval |-> EmptyMap,
     operator_approval |-> DefaultMap(Accounts \X Accounts, FALSE),
     storage_ver_u32 |-> 1]

nf_only_owner(s, caller) == IF caller # s.owner_acc THEN "NotOwner" ELSE "Ok"
\* when_not_paused of the registry without its test of the flag.
nf_when_not_paused_skipped(s) == "Ok"

nf_when_not_paused(s) == IF s.paused_flag THEN "Paused" ELSE "Ok"
\* is_approved_or_owner that looks the operator approval up under the caller in
\* place of the owner.
is_approved_or_owner_swapped(s, caller_acc, token_id) ==
    IF ~Has(s.owner_by_id, token_id) THEN "TokenMissing"
    ELSE LET owner_acc == s.owner_by_id[token_id]
         IN  IF caller_acc = owner_acc THEN "Ok"
             ELSE IF Has(s.token_approval, token_id) /\ s.token_approval[token_id] = caller_acc
                  THEN "Ok"
             ELSE IF Get(s.operator_approval, <<caller_acc, owner_acc>>, FALSE) THEN "Ok"
             ELSE "NotApproved"

is_approved_or_owner(s, caller_acc, token_id) ==
    IF ~Has(s.owner_by_id, token_id) THEN "TokenMissing"
    ELSE LET owner_acc == s.owner_by_id[token_id]
         IN  IF caller_acc = owner_acc THEN "Ok"
             ELSE IF Has(s.token_approval, token_id) /\ s.token_approval[token_id] = caller_acc
                  THEN "Ok"
             ELSE IF Get(s.operator_approval, <<owner_acc, caller_acc>>, FALSE) THEN "Ok"
             ELSE "NotApproved"
\* set_pause of the registry behind the pause gate.
nf_set_pause_gated(s, caller, paused_flag) ==
    IF nf_when_not_paused(s) # "Ok" THEN Ret(s, nf_when_not_paused(s))
    ELSE IF nf_only_owner(s, caller) # "Ok" THEN Ret(s, nf_only_owner(s, caller))
    ELSE Ret([s EXCEPT !.paused_flag = paused_flag], "Ok")

nf_set_pause(s, caller, paused_flag) ==
    IF nf_only_owner(s, caller) # "Ok" THEN Ret(s, nf_only_owner(s, caller))
    ELSE Ret([s EXCEPT !.paused_flag = paused_flag], "Ok")

nf_set_minter(s, caller, minter_acc, enabled_flag) ==
    IF nf_only_owner(s, caller) # "Ok" THEN Ret(s, nf_only_owner(s, caller))
    ELSE Ret([s EXCEPT !.is_minter = Put(@, minter_acc, enabled_flag)], "Ok")

\* The slot and the reverse index are written before the count is checked and
\* written. owned_count is a u32: within the model's bounds count_val + 1 is far
\* below 2^32 and checked_add(1) returns Some.
add_token_to_owner(s, to_acc, token_id) ==
    LET count_val == Get(s.owned_count, to_acc, 0)
    IN  Ret([s EXCEPT !.tokens_by_owner = Insert(@, <<to_acc, count_val>>, token_id),
                      !.owned_index = Insert(@, token_id, count_val),
                      !.owned_count = Put(@, to_acc, count_val + 1)], "Ok")

\* remove_token_from_owner that clears the last slot without moving its token
\* into the freed slot.
remove_token_without_swap(s, from_acc, token_id) ==
    LET count_val == Get(s.owned_count, from_acc, 0)
    IN  IF count_val = 0 THEN Ret(s, "TokenMissing")
        ELSE IF ~Has(s.owned_index, token_id) THEN Ret(s, "TokenMissing")
        ELSE Ret([s EXCEPT !.tokens_by_owner = Remove(@, <<from_acc, count_val - 1>>),
                           !.owned_index = Remove(@, token_id),
                           !.owned_count = Put(@, from_acc, count_val - 1)], "Ok")

\* remove_token_from_owner that moves the last token into the freed slot and
\* leaves the moved token's reverse index as it was.
remove_token_stale_index(s, from_acc, token_id) ==
    LET count_val == Get(s.owned_count, from_acc, 0)
    IN  IF count_val = 0 THEN Ret(s, "TokenMissing")
        ELSE IF ~Has(s.owned_index, token_id) THEN Ret(s, "TokenMissing")
        ELSE LET remove_index == s.owned_index[token_id]
                 last_index == count_val - 1
                 s1 == IF Has(s.tokens_by_owner, <<from_acc, last_index>>)
                       THEN [s EXCEPT !.tokens_by_owner =
                                Remove(Insert(@, <<from_acc, remove_index>>,
                                              s.tokens_by_owner[<<from_acc, last_index>>]),
                                       <<from_acc, last_index>>)]
                       ELSE s
             IN  Ret([s1 EXCEPT !.owned_index = Remove(@, token_id),
                                !.owned_count = Put(@, from_acc, last_index)], "Ok")
\* remove_token_from_owner that moves the last token and leaves the last slot
\* filled.
remove_token_keeps_last_slot(s, from_acc, token_id) ==
    LET count_val == Get(s.owned_count, from_acc, 0)
    IN  IF count_val = 0 THEN Ret(s, "TokenMissing")
        ELSE IF ~Has(s.owned_index, token_id) THEN Ret(s, "TokenMissing")
        ELSE LET remove_index == s.owned_index[token_id]
                 last_index == count_val - 1
                 s1 == IF Has(s.tokens_by_owner, <<from_acc, last_index>>)
                          /\ last_index # remove_index
                       THEN [s EXCEPT
                               !.tokens_by_owner =
                                   Insert(@, <<from_acc, remove_index>>,
                                          s.tokens_by_owner[<<from_acc, last_index>>]),
                               !.owned_index =
                                   Insert(@, s.tokens_by_owner[<<from_acc, last_index>>],
                                          remove_index)]
                       ELSE s
             IN  Ret([s1 EXCEPT !.owned_index = Remove(@, token_id),
                                !.owned_count = Put(@, from_acc, last_index)], "Ok")

remove_token_from_owner(s, from_acc, token_id) ==
    LET count_val == Get(s.owned_count, from_acc, 0)
    IN  IF count_val = 0 THEN Ret(s, "TokenMissing")
        ELSE IF ~Has(s.owned_index, token_id) THEN Ret(s, "TokenMissing")
        ELSE LET remove_index == s.owned_index[token_id]
                 last_index == count_val - 1
                 s1 == IF Has(s.tokens_by_owner, <<from_acc, last_index>>)
                       THEN LET last_token_id == s.tokens_by_owner[<<from_acc, last_index>>]
                                s0 == IF last_index # remove_index
                                      THEN [s EXCEPT
                                              !.tokens_by_owner =
                                                  Insert(@, <<from_acc, remove_index>>, last_token_id),
                                              !.owned_index =
                                                  Insert(@, last_token_id, remove_index)]
                                      ELSE s
                            IN  [s0 EXCEPT !.tokens_by_owner = Remove(@, <<from_acc, last_index>>)]
                       ELSE s
             IN  Ret([s1 EXCEPT !.owned_index = Remove(@, token_id),
                                !.owned_count = Put(@, from_acc, last_index)], "Ok")
\* clear_token_approval that removes nothing.
clear_token_approval_skipped(s, token_id) == s

clear_token_approval(s, token_id) ==
    [s EXCEPT !.token_approval = Remove(@, token_id)]

\* mint_one that lets the supply pass the maximum by one.
mint_one_off_by_one(s, caller_acc) ==
    IF s.max_supply_opt # None /\ s.supply_cnt > s.max_supply_opt[1]
    THEN Ret(s, "Overflow")
    ELSE LET token_id == s.next_id
             s1 == [s EXCEPT !.next_id = s.next_id + 1,
                             !.owner_by_id = Insert(@, token_id, caller_acc)]
             r2 == add_token_to_owner(s1, caller_acc, token_id)
         IN  IF r2.res # "Ok" THEN r2
             ELSE Ret([r2.st EXCEPT !.supply_cnt = r2.st.supply_cnt + 1], "Ok")
\* mint_one without its test of the maximum supply.
mint_one_unbounded(s, caller_acc) ==
    LET token_id == s.next_id
        s1 == [s EXCEPT !.next_id = s.next_id + 1,
                        !.owner_by_id = Insert(@, token_id, caller_acc)]
        r2 == add_token_to_owner(s1, caller_acc, token_id)
    IN  IF r2.res # "Ok" THEN r2
        ELSE Ret([r2.st EXCEPT !.supply_cnt = r2.st.supply_cnt + 1], "Ok")
\* mint_one that gives the new item the lowest id without an owner.
mint_one_lowest_free(s, caller_acc) ==
    IF s.max_supply_opt # None /\ s.supply_cnt >= s.max_supply_opt[1]
    THEN Ret(s, "Overflow")
    ELSE LET token_id == CHOOSE i \in 0 .. s.next_id :
                             /\ ~Has(s.owner_by_id, i)
                             /\ \A j \in 0 .. i - 1 : Has(s.owner_by_id, j)
             s1 == [s EXCEPT !.next_id = IF token_id = s.next_id THEN s.next_id + 1
                                         ELSE s.next_id,
                             !.owner_by_id = Insert(@, token_id, caller_acc)]
             r2 == add_token_to_owner(s1, caller_acc, token_id)
         IN  IF r2.res # "Ok" THEN r2
             ELSE Ret([r2.st EXCEPT !.supply_cnt = r2.st.supply_cnt + 1], "Ok")

\* One iteration of mint_n's loop. next_id and supply_cnt are u128: within the
\* model's bounds both checked_add(1) return Some.
mint_one(s, caller_acc) ==
    IF s.max_supply_opt # None /\ s.supply_cnt >= s.max_supply_opt[1]
    THEN Ret(s, "Overflow")
    ELSE LET token_id == s.next_id
             s1 == [s EXCEPT !.next_id = s.next_id + 1,
                             !.owner_by_id = Insert(@, token_id, caller_acc)]
             r2 == add_token_to_owner(s1, caller_acc, token_id)
         IN  IF r2.res # "Ok" THEN r2
             ELSE Ret([r2.st EXCEPT !.supply_cnt = r2.st.supply_cnt + 1], "Ok")

\* for _ in 0..amount_cnt: the first failing iteration returns.
RECURSIVE mint_loop(_, _, _)
mint_loop(s, caller_acc, left) ==
    IF left = 0 THEN Ret(s, "Ok")
    ELSE LET r == mint_one(s, caller_acc)
         IN  IF r.res # "Ok" THEN r ELSE mint_loop(r.st, caller_acc, left - 1)

MAX_PER_CALL == 200
\* mint_n that tests the per-call ceiling before the minter.
mint_n_ceiling_first(s, caller, amount_cnt) ==
    IF nf_when_not_paused(s) # "Ok" THEN Ret(s, nf_when_not_paused(s))
    ELSE IF amount_cnt = 0 THEN Ret(s, "AmountZero")
    ELSE IF amount_cnt > MAX_PER_CALL THEN Ret(s, "Overflow")
    ELSE IF ~Get(s.is_minter, caller, FALSE) THEN Ret(s, "Unauthorized")
    ELSE mint_loop(s, caller, amount_cnt)

mint_n(s, caller, amount_cnt) ==
    IF nf_when_not_paused(s) # "Ok" THEN Ret(s, nf_when_not_paused(s))
    ELSE IF amount_cnt = 0 THEN Ret(s, "AmountZero")
    ELSE IF ~Get(s.is_minter, caller, FALSE) THEN Ret(s, "Unauthorized")
    ELSE IF amount_cnt > MAX_PER_CALL THEN Ret(s, "Overflow")
    ELSE mint_loop(s, caller, amount_cnt)
\* transfer that tests the destination before the caller's authorization.
nf_transfer_same_account_first(s, caller, to_acc, token_id) ==
    IF nf_when_not_paused(s) # "Ok" THEN Ret(s, nf_when_not_paused(s))
    ELSE IF ~Has(s.owner_by_id, token_id) THEN Ret(s, "TokenMissing")
    ELSE IF s.owner_by_id[token_id] = to_acc THEN Ret(s, "SameAccount")
    ELSE IF is_approved_or_owner(s, caller, token_id) # "Ok"
         THEN Ret(s, is_approved_or_owner(s, caller, token_id))
    ELSE LET from_acc == s.owner_by_id[token_id]
             s1 == clear_token_approval(s, token_id)
             r2 == remove_token_from_owner(s1, from_acc, token_id)
         IN  IF r2.res # "Ok" THEN r2
             ELSE add_token_to_owner(
                      [r2.st EXCEPT !.owner_by_id = Insert(@, token_id, to_acc)],
                      to_acc, token_id)
\* transfer that leaves the item's single-item approval in place.
nf_transfer_keeps_approval(s, caller, to_acc, token_id) ==
    IF nf_when_not_paused(s) # "Ok" THEN Ret(s, nf_when_not_paused(s))
    ELSE IF is_approved_or_owner(s, caller, token_id) # "Ok"
         THEN Ret(s, is_approved_or_owner(s, caller, token_id))
    ELSE IF ~Has(s.owner_by_id, token_id) THEN Ret(s, "TokenMissing")
    ELSE LET from_acc == s.owner_by_id[token_id]
         IN  IF from_acc = to_acc THEN Ret(s, "SameAccount")
             ELSE LET r2 == remove_token_from_owner(s, from_acc, token_id)
                  IN  IF r2.res # "Ok" THEN r2
                      ELSE add_token_to_owner(
                               [r2.st EXCEPT !.owner_by_id = Insert(@, token_id, to_acc)],
                               to_acc, token_id)

nf_transfer(s, caller, to_acc, token_id) ==
    IF nf_when_not_paused(s) # "Ok" THEN Ret(s, nf_when_not_paused(s))
    ELSE IF is_approved_or_owner(s, caller, token_id) # "Ok"
         THEN Ret(s, is_approved_or_owner(s, caller, token_id))
    ELSE IF ~Has(s.owner_by_id, token_id) THEN Ret(s, "TokenMissing")
    ELSE LET from_acc == s.owner_by_id[token_id]
         IN  IF from_acc = to_acc THEN Ret(s, "SameAccount")
             ELSE LET s1 == clear_token_approval(s, token_id)
                      r2 == remove_token_from_owner(s1, from_acc, token_id)
                  IN  IF r2.res # "Ok" THEN r2
                      ELSE add_token_to_owner(
                               [r2.st EXCEPT !.owner_by_id = Insert(@, token_id, to_acc)],
                               to_acc, token_id)
\* burn that admits whoever may transfer the item.
nf_burn_by_approved(s, caller, token_id) ==
    IF nf_when_not_paused(s) # "Ok" THEN Ret(s, nf_when_not_paused(s))
    ELSE IF is_approved_or_owner(s, caller, token_id) # "Ok"
         THEN Ret(s, IF is_approved_or_owner(s, caller, token_id) = "NotApproved"
                     THEN "NotOwner" ELSE "TokenMissing")
    ELSE LET from_acc == s.owner_by_id[token_id]
             s1 == clear_token_approval(s, token_id)
             r2 == remove_token_from_owner(s1, from_acc, token_id)
         IN  IF r2.res # "Ok" THEN r2
             ELSE Ret([r2.st EXCEPT !.owner_by_id = Remove(@, token_id),
                                    !.supply_cnt = @ - 1], "Ok")
\* burn that removes the item and leaves supply_cnt as it was.
nf_burn_keeps_supply(s, caller, token_id) ==
    IF nf_when_not_paused(s) # "Ok" THEN Ret(s, nf_when_not_paused(s))
    ELSE IF ~Has(s.owner_by_id, token_id) THEN Ret(s, "TokenMissing")
    ELSE LET from_acc == s.owner_by_id[token_id]
         IN  IF from_acc # caller THEN Ret(s, "NotOwner")
             ELSE LET s1 == clear_token_approval(s, token_id)
                      r2 == remove_token_from_owner(s1, from_acc, token_id)
                  IN  IF r2.res # "Ok" THEN r2
                      ELSE Ret([r2.st EXCEPT !.owner_by_id = Remove(@, token_id)], "Ok")

nf_burn(s, caller, token_id) ==
    IF nf_when_not_paused(s) # "Ok" THEN Ret(s, nf_when_not_paused(s))
    ELSE IF ~Has(s.owner_by_id, token_id) THEN Ret(s, "TokenMissing")
    ELSE LET from_acc == s.owner_by_id[token_id]
         IN  IF from_acc # caller THEN Ret(s, "NotOwner")
             ELSE LET s1 == clear_token_approval(s, token_id)
                      r2 == remove_token_from_owner(s1, from_acc, token_id)
                  IN  IF r2.res # "Ok" THEN r2
                      ELSE LET s3 == [r2.st EXCEPT !.owner_by_id = Remove(@, token_id)]
                           IN  IF s3.supply_cnt < 1 THEN Ret(s3, "Overflow")
                               ELSE Ret([s3 EXCEPT !.supply_cnt = s3.supply_cnt - 1], "Ok")
\* approve that also admits the owner's operators.
nf_approve_by_operator(s, caller, approved_acc, token_id) ==
    IF nf_when_not_paused(s) # "Ok" THEN Ret(s, nf_when_not_paused(s))
    ELSE IF ~Has(s.owner_by_id, token_id) THEN Ret(s, "TokenMissing")
    ELSE IF s.owner_by_id[token_id] # caller
            /\ ~Get(s.operator_approval, <<s.owner_by_id[token_id], caller>>, FALSE)
         THEN Ret(s, "NotOwner")
    ELSE Ret([s EXCEPT !.token_approval = Insert(@, token_id, approved_acc)], "Ok")

nf_approve(s, caller, approved_acc, token_id) ==
    IF nf_when_not_paused(s) # "Ok" THEN Ret(s, nf_when_not_paused(s))
    ELSE IF ~Has(s.owner_by_id, token_id) THEN Ret(s, "TokenMissing")
    ELSE IF s.owner_by_id[token_id] # caller THEN Ret(s, "NotOwner")
    ELSE Ret([s EXCEPT !.token_approval = Insert(@, token_id, approved_acc)], "Ok")
\* set_approval_for_all that writes the pair the other way round.
set_approval_for_all_swapped(s, caller, operator_acc, approved_flag) ==
    IF nf_when_not_paused(s) # "Ok" THEN Ret(s, nf_when_not_paused(s))
    ELSE IF caller = operator_acc THEN Ret(s, "SameAccount")
    ELSE Ret([s EXCEPT !.operator_approval =
                 Put(@, <<operator_acc, caller>>, approved_flag)], "Ok")

set_approval_for_all(s, caller, operator_acc, approved_flag) ==
    IF nf_when_not_paused(s) # "Ok" THEN Ret(s, nf_when_not_paused(s))
    ELSE IF caller = operator_acc THEN Ret(s, "SameAccount")
    ELSE Ret([s EXCEPT !.operator_approval =
                 Put(@, <<caller, operator_acc>>, approved_flag)], "Ok")

get_approved(s, token_id) ==
    IF Has(s.token_approval, token_id) THEN Some(s.token_approval[token_id]) ELSE None

is_approved_for_all(s, owner_acc, operator_acc) ==
    Get(s.operator_approval, <<owner_acc, operator_acc>>, FALSE)

owner_of(s, token_id) ==
    IF Has(s.owner_by_id, token_id) THEN Some(s.owner_by_id[token_id]) ELSE None

nf_balance_of(s, owner_acc) == Get(s.owned_count, owner_acc, 0)

Min(a, b) == IF a < b THEN a ELSE b

\* The while loop from index_val up to end_index: a slot that holds nothing is skipped.
RECURSIVE tokens_from(_, _, _, _)
tokens_from(s, owner_acc, index_val, end_index) ==
    IF index_val >= end_index THEN << >>
    ELSE (IF Has(s.tokens_by_owner, <<owner_acc, index_val>>)
          THEN << s.tokens_by_owner[<<owner_acc, index_val>>] >>
          ELSE << >>)
         \o tokens_from(s, owner_acc, index_val + 1, end_index)
\* tokens_of that ends the window at limit_cnt, not at start_index + limit_cnt.
tokens_of_window_from_zero(s, owner_acc, start_index, limit_cnt) ==
    LET count_val == nf_balance_of(s, owner_acc)
    IN  IF start_index >= count_val \/ limit_cnt = 0 THEN << >>
        ELSE tokens_from(s, owner_acc, start_index, Min(count_val, limit_cnt))

tokens_of(s, owner_acc, start_index, limit_cnt) ==
    LET count_val == nf_balance_of(s, owner_acc)
    IN  IF start_index >= count_val \/ limit_cnt = 0 THEN << >>
        ELSE tokens_from(s, owner_acc, start_index, Min(count_val, start_index + limit_cnt))

\* ------------------------------------------------------------ the ledger's steps

\* A call of the ledger leaves the storage of its outcome; the Result goes to the
\* caller.
MooCall(r) ==
    /\ moo' = r.st
    /\ UNCHANGED <<basic, nf>>

SetPause == \E c \in Accounts, f \in BOOLEAN : MooCall(set_pause(moo, c, f))
SetMinter == \E c \in Accounts, m \in MinterCandidates, f \in BOOLEAN :
                 MooCall(set_minter(moo, c, m, f))
Mint == \E c \in Accounts, n \in Amounts : MooCall(mint(moo, c, n))
Burn == \E c \in Accounts, n \in Amounts : MooCall(burn(moo, c, n))
Transfer == \E c \in Accounts, t \in Accounts, n \in Amounts :
                MooCall(transfer(moo, c, t, n))
Approve == \E c \in Accounts, sp \in Spenders, n \in Amounts :
               MooCall(approve(moo, c, sp, n))
IncreaseAllowance == \E c \in Accounts, sp \in Spenders, n \in Amounts :
                         MooCall(increase_allowance(moo, c, sp, n))
DecreaseAllowance == \E c \in Accounts, sp \in Spenders, n \in Amounts :
                         MooCall(decrease_allowance(moo, c, sp, n))
TransferFrom == \E c \in Accounts, f \in Accounts, t \in Accounts, n \in Amounts :
                    MooCall(transfer_from(moo, c, f, t, n))

Init ==
    /\ moo = MooNew(Deployer)
    /\ basic = lib_new
    /\ nf = NFMooNew(Deployer, None)

Next ==
    \/ SetPause
    \/ SetMinter
    \/ Mint
    \/ Burn
    \/ Transfer
    \/ Approve
    \/ IncreaseAllowance
    \/ DecreaseAllowance
    \/ TransferFrom

Spec == Init /\ [][Next]_vars

\* ------------------------------------------------ the steps of the ledger of lib.rs

\* A call of the ledger of lib.rs.
LibCall(r) ==
    /\ basic' = r.st
    /\ UNCHANGED <<moo, nf>>

LibMint == \E c \in Accounts, n \in Amounts : LibCall(lib_mint(basic, c, n))
LibTransfer == \E c \in Accounts, t \in Accounts, n \in Amounts :
                   LibCall(lib_transfer(basic, c, t, n))
LibApprove == \E c \in Accounts, sp \in Spenders, n \in Amounts :
                  LibCall(lib_approve(basic, c, sp, n))
LibTransferFrom == \E c \in Accounts, f \in Accounts, t \in Accounts, n \in Amounts :
                       LibCall(lib_transfer_from(basic, c, f, t, n))

NextLib ==
    \/ LibMint
    \/ LibTransfer
    \/ LibApprove
    \/ LibTransferFrom

SpecLib == Init /\ [][NextLib]_vars

\* ---------------------------------------------------------- the registry's steps

\* A call of the registry.
NfCall(r) ==
    /\ r.st.next_id <= MaxId
    /\ nf' = r.st
    /\ UNCHANGED <<moo, basic>>

NfSetPause == \E c \in Accounts, f \in BOOLEAN : NfCall(nf_set_pause(nf, c, f))
NfSetMinter == \E c \in Accounts, m \in NfMinterCandidates, f \in BOOLEAN :
                   NfCall(nf_set_minter(nf, c, m, f))
MintN == \E c \in Accounts, n \in (0 .. MaxBatch) \cup {MAX_PER_CALL + 1} :
             NfCall(mint_n(nf, c, n))
NfTransfer == \E c \in Accounts, x \in Accounts, id \in TokenIds :
                  NfCall(nf_transfer(nf, c, x, id))
NfBurn == \E c \in Accounts, id \in TokenIds : NfCall(nf_burn(nf, c, id))
NfApprove == \E c \in Accounts, x \in Approvees, id \in TokenIds :
                 NfCall(nf_approve(nf, c, x, id))
SetApprovalForAll == \E c \in Grantors, x \in Operators, f \in BOOLEAN :
                         NfCall(set_approval_for_all(nf, c, x, f))

NextReg ==
    \/ NfSetPause
    \/ NfSetMinter
    \/ MintN
    \/ NfTransfer
    \/ NfBurn
    \/ NfApprove
    \/ SetApprovalForAll

\* The registry is constructed without or with a maximum supply.
InitReg ==
    /\ moo = MooNew(Deployer)
    /\ basic = lib_new
    /\ nf \in {NFMooNew(Deployer, m) : m \in {None, Some(MaxSupply)}}

SpecReg == InitReg /\ [][NextReg]_vars

\* ---------------------------------------------------------- claims on the ledger

RECURSIVE SumOver(_, _)
SumOver(f, keys) ==
    IF keys = {} THEN 0
    ELSE LET k == CHOOSE x \in keys : TRUE IN f[k] + SumOver(f, keys \ {k})

\* What the pause gate protects: supply, balances, allowances.
LedgerData(s) == <<s.total_supply, s.balances, s.allowances>>

\* C1: in every reachable state of the ledger total_supply is the sum of all balances.
C1_SupplyIsSumOfBalances ==
    moo.total_supply = SumOver(moo.balances, Accounts)

\* C1 witness: supply is held by two accounts at once, so mints and a transfer or a
\* transfer_from have run.
C1_Witness ==
    /\ moo.total_supply > 1
    /\ Cardinality({a \in Accounts : moo.balances[a] > 0}) > 1

\* C4 (as claimed, on the ledger of lib.rs): a call that returns a failure leaves
\* total supply, every balance and every allowance as they were.
C4_FailureChangesNothing ==
    /\ \A c \in Accounts, n \in Amounts :
           lib_mint(basic, c, n).res # "Ok" => lib_mint(basic, c, n).st = basic
    /\ \A c \in Accounts, x \in Accounts, n \in Amounts :
           /\ lib_transfer(basic, c, x, n).res # "Ok" => lib_transfer(basic, c, x, n).st = basic
           /\ lib_approve(basic, c, x, n).res # "Ok" => lib_approve(basic, c, x, n).st = basic
    /\ \A c \in Accounts, f \in Accounts, x \in Accounts, n \in Amounts :
           lib_transfer_from(basic, c, f, x, n).res # "Ok"
               => lib_transfer_from(basic, c, f, x, n).st = basic

\* C4 on the ledger of logic.rs, where it holds: every failure comes before the first
\* write in every reachable state.
C4_FailureChangesNothing_Logic ==
    /\ \A c \in Accounts, f \in BOOLEAN :
           set_pause(moo, c, f).res # "Ok" => set_pause(moo, c, f).st = moo
    /\ \A c \in Accounts, x \in Accounts, f \in BOOLEAN :
           set_minter(moo, c, x, f).res # "Ok" => set_minter(moo, c, x, f).st = moo
    /\ \A c \in Accounts, n \in Amounts :
           /\ mint(moo, c, n).res # "Ok" => mint(moo, c, n).st = moo
           /\ burn(moo, c, n).res # "Ok" => burn(moo, c, n).st = moo
    /\ \A c \in Accounts, x \in Accounts, n \in Amounts :
           /\ transfer(moo, c, x, n).res # "Ok" => transfer(moo, c, x, n).st = moo
           /\ approve(moo, c, x, n).res # "Ok" => approve(moo, c, x, n).st = moo
           /\ increase_allowance(moo, c, x, n).res # "Ok"
                  => increase_allowance(moo, c, x, n).st = moo
           /\ decrease_allowance(moo, c, x, n).res # "Ok"
                  => decrease_allowance(moo, c, x, n).st = moo
    /\ \A c \in Accounts, f \in Accounts, x \in Accounts, n \in Amounts :
           transfer_from(moo, c, f, x, n).res # "Ok" => transfer_from(moo, c, f, x, n).st = moo

\* C7 (as claimed, on the ledger of lib.rs): for amount > 0 and from # to, a balance
\* below amount gives InsufficientBalance whatever the allowance and leaves the
\* allowances alone; InsufficientAllowance is returned only when the balance suffices
\* and the allowance is below amount.
C7_BalanceCheckedFirst ==
    \A c \in Accounts, f \in Accounts, x \in Accounts, n \in Amounts :
        LET r == lib_transfer_from(basic, c, f, x, n)
        IN  (n > 0 /\ f # x) =>
                /\ basic.balances[f] < n =>
                       (r.res = "InsufficientBalance" /\ r.st.allowances = basic.allowances)
                /\ r.res = "InsufficientAllowance" =>
                       (basic.balances[f] >= n /\ basic.allowances[<<f, c>>] < n)

\* C7 on the ledger of logic.rs, where it holds.
C7_BalanceCheckedFirst_Logic ==
    \A c \in Accounts, f \in Accounts, x \in Accounts, n \in Amounts :
        LET r == transfer_from(moo, c, f, x, n)
        IN  (~moo.paused_flag /\ n > 0 /\ f # x) =>
                /\ moo.balances[f] < n =>
                       (r.res = "InsufficientBalance" /\ r.st.allowances = moo.allowances)
                /\ r.res = "InsufficientAllowance" =>
                       (moo.balances[f] >= n /\ moo.allowances[<<f, c>>] < n)

\* C8: a successful transfer_from(caller, from, to, amount) takes amount from from's
\* balance, adds it to to's, takes it from allowance(from, caller), and changes no
\* other balance, no other allowance and nothing else of the storage.
C8_TransferFromEffect ==
    \A c \in Accounts, f \in Accounts, x \in Accounts, n \in Amounts :
        LET r == transfer_from(moo, c, f, x, n)
        IN  r.res = "Ok" =>
                /\ r.st.balances[f] = moo.balances[f] - n
                /\ r.st.balances[x] = moo.balances[x] + n
                /\ \A a \in Accounts \ {f, x} : r.st.balances[a] = moo.balances[a]
                /\ r.st.allowances[<<f, c>>] = moo.allowances[<<f, c>>] - n
                /\ \A k \in (Accounts \X Accounts) \ {<<f, c>>} :
                       r.st.allowances[k] = moo.allowances[k]
                /\ r.st.total_supply = moo.total_supply
                /\ r.st.paused_flag = moo.paused_flag
                /\ r.st.is_minter = moo.is_minter
                /\ r.st.owner_acc = moo.owner_acc

\* C8 witness: a spender who is neither from nor to moves from's balance and uses
\* the whole allowance up.
C8_Witness ==
    \E c \in Accounts, f \in Accounts, x \in Accounts, n \in Amounts :
        /\ c # f /\ c # x
        /\ transfer_from(moo, c, f, x, n).res = "Ok"
        /\ moo.allowances[<<f, c>>] = n
        /\ transfer_from(moo, c, f, x, n).st.allowances[<<f, c>>] = 0

\* C9 (as claimed, on the ledger of lib.rs): approve fails with AllowanceRace exactly
\* when the current allowance and the new amount are both non-zero, leaving the
\* allowance; otherwise it succeeds and sets the allowance to amount.
C9_SafeApprove ==
    \A c \in Accounts, sp \in Accounts, n \in Amounts :
        LET r == lib_approve(basic, c, sp, n)
            current_val == basic.allowances[<<c, sp>>]
        IN  IF current_val # 0 /\ n # 0
            THEN r.res = "AllowanceRace" /\ r.st = basic
            ELSE r.res = "Ok" /\ r.st.allowances[<<c, sp>>] = n

\* C9 on the ledger of logic.rs, where it holds while the ledger is not paused.
C9_SafeApprove_Logic ==
    \A c \in Accounts, sp \in Accounts, n \in Amounts :
        LET r == approve(moo, c, sp, n)
            current_val == moo.allowances[<<c, sp>>]
        IN  ~moo.paused_flag =>
                IF current_val # 0 /\ n # 0
                THEN r.res = "AllowanceRace" /\ r.st = moo
                ELSE r.res = "Ok" /\ r.st.allowances[<<c, sp>>] = n

\* C10: while paused_flag is set, mint, burn, transfer, approve, increase_allowance,
\* decrease_allowance and transfer_from return Paused for every caller and every
\* argument and leave the storage alone, and no step taken while the flag is set
\* changes supply, balances or allowances.
C10_PauseGate ==
    /\ [](moo.paused_flag =>
            /\ \A c \in Accounts, n \in Amounts :
                   /\ mint(moo, c, n) = Ret(moo, "Paused")
                   /\ burn(moo, c, n) = Ret(moo, "Paused")
            /\ \A c \in Accounts, x \in Accounts, n \in Amounts :
                   /\ transfer(moo, c, x, n) = Ret(moo, "Paused")
                   /\ approve(moo, c, x, n) = Ret(moo, "Paused")
                   /\ increase_allowance(moo, c, x, n) = Ret(moo, "Paused")
                   /\ decrease_allowance(moo, c, x, n) = Ret(moo, "Paused")
            /\ \A c \in Accounts, f \in Accounts, x \in Accounts, n \in Amounts :
                   transfer_from(moo, c, f, x, n) = Ret(moo, "Paused"))
    /\ [][moo.paused_flag => LedgerData(moo') = LedgerData(moo)]_vars

\* C10 witness: a paused ledger that holds supply and an allowance large enough for
\* the transfer_from it turns away.
C10_Witness ==
    /\ moo.paused_flag
    /\ moo.balances["alice"] > 0
    /\ moo.allowances[<<"alice", "bob">>] > 0
    /\ transfer_from(moo, "bob", "alice", "charlie", 1) = Ret(moo, "Paused")


\* ------------------------------------------------------- claims on the registry

\* The ids that have an owner, and those of one owner.
Owned == DOMAIN nf.owner_by_id
OwnedBy(o) == {id \in Owned : nf.owner_by_id[id] = o}
\* The slots 0 .. count-1 of an owner.
Slots(s, o) == 0 .. (s.owned_count[o] - 1)

\* C2: for every owner o, balance_of(o) is the number of ids whose owner is o, and
\* the slots 0 .. balance_of(o)-1 of o are all filled, hold exactly those ids and
\* hold no id twice.
C2_DenseIndex ==
    \A o \in Accounts :
        /\ nf_balance_of(nf, o) = Cardinality(OwnedBy(o))
        /\ \A i \in Slots(nf, o) : Has(nf.tokens_by_owner, <<o, i>>)
        /\ {nf.tokens_by_owner[<<o, i>>] : i \in Slots(nf, o)} = OwnedBy(o)
        /\ \A i \in Slots(nf, o), j \in Slots(nf, o) :
               nf.tokens_by_owner[<<o, i>>] = nf.tokens_by_owner[<<o, j>>] => i = j

\* C2 witness: bob minted 0, 1, 2 and gave 1 away: the last token sits in the
\* freed slot.
C2_Witness ==
    /\ nf_balance_of(nf, "bob") = 2
    /\ tokens_of(nf, "bob", 0, 2) = <<0, 2>>
    /\ owner_of(nf, 1) = Some("charlie")

\* C3: the reverse index and the slot table agree: an item X of owner o has
\* owned_index[X] = i with i < count(o) and tokens_by_owner[(o, i)] = X; no slot at
\* or past count(o) is stored, and no reverse index is stored for an item without
\* an owner.
C3_IndexesAgree ==
    /\ \A id \in Owned :
           LET o == nf.owner_by_id[id]
           IN  /\ Has(nf.owned_index, id)
               /\ nf.owned_index[id] < nf.owned_count[o]
               /\ Has(nf.tokens_by_owner, <<o, nf.owned_index[id]>>)
               /\ nf.tokens_by_owner[<<o, nf.owned_index[id]>>] = id
    /\ \A k \in DOMAIN nf.tokens_by_owner : k[2] < nf.owned_count[k[1]]
    /\ \A id \in DOMAIN nf.owned_index : id \in Owned

\* C3 witness: token 1 of bob's three was burned: token 2 was moved to slot 1 and
\* its reverse index followed.
C3_Witness ==
    /\ nf.next_id = 3
    /\ Owned = {0, 2}
    /\ OwnedBy("bob") = {0, 2}
    /\ nf.owned_index[2] = 1
    /\ ~Has(nf.tokens_by_owner, <<"bob", 2>>)

\* The arguments the registry's messages are checked with.
Counts == (0 .. MaxBatch + 1) \cup {MAX_PER_CALL + 1}

\* C5 (as claimed): a registry call that returns a failure leaves the whole storage
\* as it was, a mint_n that fails in a later iteration included.
C5_FailureChangesNothing ==
    /\ \A c \in Accounts, f \in BOOLEAN :
           nf_set_pause(nf, c, f).res # "Ok" => nf_set_pause(nf, c, f).st = nf
    /\ \A c \in Accounts, x \in Accounts, f \in BOOLEAN :
           /\ nf_set_minter(nf, c, x, f).res # "Ok" => nf_set_minter(nf, c, x, f).st = nf
           /\ set_approval_for_all(nf, c, x, f).res # "Ok"
                  => set_approval_for_all(nf, c, x, f).st = nf
    /\ \A c \in Accounts, id \in TokenIds :
           nf_burn(nf, c, id).res # "Ok" => nf_burn(nf, c, id).st = nf
    /\ \A c \in Accounts, x \in Accounts, id \in TokenIds :
           /\ nf_transfer(nf, c, x, id).res # "Ok" => nf_transfer(nf, c, x, id).st = nf
           /\ nf_approve(nf, c, x, id).res # "Ok" => nf_approve(nf, c, x, id).st = nf
    /\ \A c \in Accounts, n \in 0 .. MaxBatch :
           mint_n(nf, c, n).res # "Ok" => mint_n(nf, c, n).st = nf

\* The ids minted by a call that took the storage from s to t.
Minted(s, t) == s.next_id .. (t.next_id - 1)

\* C6: when mint_n(caller, count) reaches the maximum supply after k > 0 items of
\* the batch, it returns Overflow; the k items stay minted: owned by the caller, in
\* the caller's next slots, counted in the supply; the failing iteration creates
\* nothing. And a mint_n that failed after it wrote is such a call.
C6_EarlierItemsStay ==
    \A c \in Accounts, n \in Counts :
        LET r == mint_n(nf, c, n)
            k == IF nf.max_supply_opt = None THEN 0
                 ELSE nf.max_supply_opt[1] - nf.supply_cnt
            MidBatch == /\ ~nf.paused_flag /\ nf.is_minter[c]
                        /\ n <= MAX_PER_CALL
                        /\ 0 < k /\ k < n
        IN  /\ MidBatch =>
                /\ r.res = "Overflow"
                /\ Minted(nf, r.st) = nf.next_id .. (nf.next_id + k - 1)
                /\ \A j \in 0 .. (k - 1) :
                       /\ r.st.owner_by_id[nf.next_id + j] = c
                       /\ r.st.owned_index[nf.next_id + j] = nf.owned_count[c] + j
                       /\ r.st.tokens_by_owner[<<c, nf.owned_count[c] + j>>] = nf.next_id + j
                /\ r.st.supply_cnt = nf.supply_cnt + k
                /\ r.st.owned_count = [nf.owned_count EXCEPT ![c] = @ + k]
                /\ DOMAIN r.st.owner_by_id = DOMAIN nf.owner_by_id \cup Minted(nf, r.st)
                /\ DOMAIN r.st.owned_index = DOMAIN nf.owned_index \cup Minted(nf, r.st)
                /\ DOMAIN r.st.tokens_by_owner =
                       DOMAIN nf.tokens_by_owner
                           \cup {<<c, nf.owned_count[c] + j>> : j \in 0 .. (k - 1)}
                /\ \A id \in DOMAIN nf.owner_by_id :
                       r.st.owner_by_id[id] = nf.owner_by_id[id]
            /\ (r.res # "Ok" /\ r.st # nf) => MidBatch

\* C6 witness: a minter asks for two items when one is left below the maximum.
C6_Witness ==
    /\ nf.max_supply_opt = Some(MaxSupply)
    /\ nf.supply_cnt = MaxSupply - 1
    /\ nf.is_minter["bob"] /\ ~nf.paused_flag
    /\ mint_n(nf, "bob", 2).res = "Overflow"
    /\ mint_n(nf, "bob", 2).st.supply_cnt = MaxSupply

\* ------------------------------------------------ claims C11 .. C20

\* What the registry's pure reads return, for every argument explored.
Reads(s) ==
    << [id \in 0 .. MaxId |-> owner_of(s, id)],
       [o \in Accounts |-> nf_balance_of(s, o)],
       [id \in 0 .. MaxId |-> get_approved(s, id)],
       [k \in Accounts \X Accounts |-> is_approved_for_all(s, k[1], k[2])],
       [k \in Accounts \X (0 .. MaxId) \X (0 .. MaxId + 1) |-> tokens_of(s, k[1], k[2], k[3])] >>

\* C11: while the registry is paused, mint_n, transfer, burn, approve and
\* set_approval_for_all return Paused for every caller and argument and leave the
\* storage as it is; and no step into, within or out of a pause changes what
\* owner_of, balance_of, get_approved, is_approved_for_all and tokens_of return.
C11_RegistryPauseGate ==
    /\ [](nf.paused_flag =>
            /\ \A c \in Accounts, n \in Counts : mint_n(nf, c, n) = Ret(nf, "Paused")
            /\ \A c \in Accounts, x \in Accounts, id \in 0 .. MaxId :
                   /\ nf_transfer(nf, c, x, id) = Ret(nf, "Paused")
                   /\ nf_approve(nf, c, x, id) = Ret(nf, "Paused")
            /\ \A c \in Accounts, id \in 0 .. MaxId : nf_burn(nf, c, id) = Ret(nf, "Paused")
            /\ \A c \in Accounts, x \in Accounts, f \in BOOLEAN :
                   set_approval_for_all(nf, c, x, f) = Ret(nf, "Paused"))
    /\ [][(nf.paused_flag \/ nf'.paused_flag) /\ nf' # nf => Reads(nf') = Reads(nf)]_vars

\* C11 witness: a paused registry in which bob, a minter, owns item 0 with an
\* approval on it: bob's mint_n and transfer are turned away and the reads answer.
C11_Witness ==
    /\ nf.paused_flag
    /\ nf.is_minter["bob"]
    /\ owner_of(nf, 0) = Some("bob")
    /\ get_approved(nf, 0) = Some("charlie")
    /\ mint_n(nf, "bob", 1) = Ret(nf, "Paused")
    /\ nf_transfer(nf, "bob", "alice", 0) = Ret(nf, "Paused")
    /\ tokens_of(nf, "bob", 0, 1) = <<0>>

\* C12: the ledger's owner is the account that constructed it; set_pause and
\* set_minter by the owner succeed and write the flag, resp. the membership, and
\* nothing else; by any other caller they return NotOwner and leave the storage as
\* it is; and a step that changes the pause flag or the minter set is a set_pause
\* or set_minter called by the owner.
C12_OwnerOnlyAdmin ==
    /\ [](/\ moo.owner_acc = Deployer
          /\ \A c \in Accounts, f \in BOOLEAN :
                 /\ c = moo.owner_acc =>
                        set_pause(moo, c, f) = Ret([moo EXCEPT !.paused_flag = f], "Ok")
                 /\ c # moo.owner_acc => set_pause(moo, c, f) = Ret(moo, "NotOwner")
          /\ \A c \in Accounts, m \in Accounts, f \in BOOLEAN :
                 /\ c = moo.owner_acc =>
                        set_minter(moo, c, m, f) =
                            Ret([moo EXCEPT !.is_minter = [@ EXCEPT ![m] = f]], "Ok")
                 /\ c # moo.owner_acc => set_minter(moo, c, m, f) = Ret(moo, "NotOwner"))
    /\ [][(moo'.paused_flag # moo.paused_flag \/ moo'.is_minter # moo.is_minter) =>
              \E f \in BOOLEAN :
                  \/ moo' = set_pause(moo, moo.owner_acc, f).st
                  \/ \E m \in Accounts : moo' = set_minter(moo, moo.owner_acc, m, f).st]_vars

\* C12 witness: the owner has paused the ledger and made bob a minter; bob, who is
\* not the owner, is refused both calls.
C12_Witness ==
    /\ moo.paused_flag
    /\ moo.is_minter["bob"]
    /\ "bob" # moo.owner_acc
    /\ set_pause(moo, "bob", FALSE) = Ret(moo, "NotOwner")
    /\ set_minter(moo, "bob", "charlie", TRUE) = Ret(moo, "NotOwner")

\* C13: on the ledger no account is a minter initially, the owner included; the
\* membership of a is what the owner's last successful set_minter(a, _) wrote: a
\* successful set_minter(a, f) leaves is_minter[a] = f and no other step changes
\* it; a mint by a succeeds only while a is a minter; and a mint of a non-zero
\* amount by a non-minter on an unpaused ledger returns Unauthorized and leaves
\* supply and balances, with the rest of the storage, as they are.
C13_MintAuthorization ==
    /\ \A a \in Accounts : ~moo.is_minter[a]
    /\ [](/\ \A a \in Accounts, n \in Amounts :
                 /\ mint(moo, a, n).res = "Ok" => moo.is_minter[a]
                 /\ (~moo.is_minter[a] /\ n # 0 /\ ~moo.paused_flag) =>
                        mint(moo, a, n) = Ret(moo, "Unauthorized")
          /\ \A c \in Accounts, a \in Accounts, f \in BOOLEAN :
                 set_minter(moo, c, a, f).res = "Ok" =>
                     set_minter(moo, c, a, f).st.is_minter[a] = f)
    /\ [][\A a \in Accounts :
              moo'.is_minter[a] # moo.is_minter[a] =>
                  moo' = set_minter(moo, moo.owner_acc, a, moo'.is_minter[a]).st]_vars

\* C13 witness: bob holds tokens and is no longer a minter: the ledger is not
\* paused, there is room below the maximum, and bob's mint is refused.
C13_Witness ==
    /\ moo.balances["bob"] > 0
    /\ moo.total_supply < AmountMax
    /\ ~moo.is_minter["bob"]
    /\ moo.is_minter["charlie"]
    /\ ~moo.paused_flag
    /\ mint(moo, "bob", 1) = Ret(moo, "Unauthorized")
    /\ mint(moo, "charlie", 1).res = "Ok"

\* C13 on the registry: the same for mint_n.
C13_MintAuthorization_Registry ==
    /\ \A a \in Accounts : ~nf.is_minter[a]
    /\ [](/\ \A a \in Accounts, n \in Counts :
                 /\ mint_n(nf, a, n).res = "Ok" => nf.is_minter[a]
                 /\ (~nf.is_minter[a] /\ n # 0 /\ ~nf.paused_flag) =>
                        mint_n(nf, a, n) = Ret(nf, "Unauthorized")
          /\ \A c \in Accounts, a \in Accounts, f \in BOOLEAN :
                 nf_set_minter(nf, c, a, f).res = "Ok" =>
                     nf_set_minter(nf, c, a, f).st.is_minter[a] = f)
    /\ [][\A a \in Accounts :
              nf'.is_minter[a] # nf.is_minter[a] =>
                  nf' = nf_set_minter(nf, nf.owner_acc, a, nf'.is_minter[a]).st]_vars

\* C14: on an unpaused ledger transfer(caller, to, amount) returns AmountZero for
\* amount 0, else SameAccount for to = caller, else InsufficientBalance for a
\* balance below amount, each with the storage as it was; otherwise it succeeds,
\* takes amount from the caller's balance, adds it to to's, and leaves the supply,
\* every other balance, the allowances and the rest of the storage alone.
C14_TransferEffect ==
    \A c \in Accounts, x \in Accounts, n \in Amounts :
        LET r == transfer(moo, c, x, n)
        IN  ~moo.paused_flag =>
                IF n = 0 THEN r = Ret(moo, "AmountZero")
                ELSE IF x = c THEN r = Ret(moo, "SameAccount")
                ELSE IF balance_of(moo, c) < n THEN r = Ret(moo, "InsufficientBalance")
                ELSE /\ r.res = "Ok"
                     /\ balance_of(r.st, c) = balance_of(moo, c) - n
                     /\ balance_of(r.st, x) = balance_of(moo, x) + n
                     /\ \A o \in Accounts \ {c, x} : balance_of(r.st, o) = balance_of(moo, o)
                     /\ total_supply(r.st) = total_supply(moo)
                     /\ r.st = [moo EXCEPT !.balances = r.st.balances]

\* C14 witness: bob holds the whole supply of two and can give one to charlie,
\* who holds nothing.
C14_Witness ==
    /\ ~moo.paused_flag
    /\ moo.total_supply = 2
    /\ balance_of(moo, "bob") = 2
    /\ transfer(moo, "bob", "charlie", 1).res = "Ok"
    /\ balance_of(transfer(moo, "bob", "charlie", 1).st, "bob") = 1
    /\ balance_of(transfer(moo, "bob", "charlie", 1).st, "charlie") = 1

\* C15: amounts are bounded by AmountMax. A mint by a minter of a non-zero amount
\* on an unpaused ledger that would take the supply or the caller's balance past
\* AmountMax returns Overflow and leaves the supply and the caller's balance, with
\* the rest of the storage, as they are; any other such mint succeeds and adds
\* exactly the amount to the supply and to the caller's balance, nothing else
\* changing; and in every reachable state the supply and every balance are within
\* 0 .. AmountMax, no balance above the supply.
C15_CheckedMint ==
    /\ moo.total_supply \in 0 .. AmountMax
    /\ \A o \in Accounts : balance_of(moo, o) \in 0 .. moo.total_supply
    /\ \A a \in Accounts, n \in Amounts :
           LET r == mint(moo, a, n)
           IN  (~moo.paused_flag /\ n # 0 /\ moo.is_minter[a]) =>
                   IF moo.total_supply + n > AmountMax \/ balance_of(moo, a) + n > AmountMax
                   THEN r = Ret(moo, "Overflow")
                   ELSE /\ r.res = "Ok"
                        /\ total_supply(r.st) = total_supply(moo) + n
                        /\ balance_of(r.st, a) = balance_of(moo, a) + n
                        /\ r.st = [moo EXCEPT !.total_supply = @ + n,
                                              !.balances = [@ EXCEPT ![a] = @ + n]]

\* C15 witness: the supply is at AmountMax, held by bob and charlie; charlie, a
\* minter, asks for one more and gets Overflow.
C15_Witness ==
    /\ moo.total_supply = AmountMax
    /\ balance_of(moo, "bob") > 0
    /\ balance_of(moo, "charlie") > 0
    /\ moo.is_minter["charlie"] /\ ~moo.paused_flag
    /\ mint(moo, "charlie", 1) = Ret(moo, "Overflow")

\* C16: on an unpaused ledger increase_allowance(caller, spender, delta) returns
\* Overflow with the storage as it was when allowance + delta exceeds AmountMax and
\* otherwise succeeds and sets the allowance to allowance + delta;
\* decrease_allowance(caller, spender, delta) always succeeds and sets it to
\* allowance - delta, or 0 when delta is larger. Neither returns AllowanceRace,
\* and neither changes anything but that one allowance.
C16_AllowanceSteps ==
    \A c \in Accounts, x \in Accounts, n \in Amounts :
        LET cur == allowance(moo, c, x)
            up == increase_allowance(moo, c, x, n)
            down == decrease_allowance(moo, c, x, n)
        IN  ~moo.paused_flag =>
                /\ IF cur + n > AmountMax THEN up = Ret(moo, "Overflow")
                   ELSE up = Ret([moo EXCEPT !.allowances = [@ EXCEPT ![<<c, x>>] = cur + n]],
                                 "Ok")
                /\ down = Ret([moo EXCEPT !.allowances =
                                  [@ EXCEPT ![<<c, x>>] = IF cur > n THEN cur - n ELSE 0]],
                              "Ok")
                /\ up.res # "AllowanceRace" /\ down.res # "AllowanceRace"
                /\ up.st.balances = moo.balances /\ down.st.balances = moo.balances
                /\ up.st.total_supply = moo.total_supply
                /\ down.st.total_supply = moo.total_supply

\* C16 witness: alice's allowance to bob is 1: raising it by 1 gives 2 (non-zero to
\* non-zero), raising it by AmountMax overflows, lowering it by 2 gives 0.
C16_Witness ==
    /\ ~moo.paused_flag
    /\ allowance(moo, "alice", "bob") = 1
    /\ allowance(increase_allowance(moo, "alice", "bob", 1).st, "alice", "bob") = 2
    /\ increase_allowance(moo, "alice", "bob", AmountMax) = Ret(moo, "Overflow")
    /\ decrease_allowance(moo, "alice", "bob", 2).res = "Ok"
    /\ allowance(decrease_allowance(moo, "alice", "bob", 2).st, "alice", "bob") = 0

\* C17: when the registry was constructed with a maximum supply, supply_cnt never
\* exceeds it, and a mint_n of 1 .. MAX_PER_CALL items by a minter on an unpaused
\* registry whose supply equals the maximum returns Overflow and leaves the
\* supply, with the rest of the storage, as it is.
C17_MaxSupply ==
    nf.max_supply_opt # None =>
        /\ nf.supply_cnt <= nf.max_supply_opt[1]
        /\ \A c \in Accounts, n \in 1 .. MaxBatch + 1 :
               (nf.supply_cnt = nf.max_supply_opt[1] /\ nf.is_minter[c] /\ ~nf.paused_flag) =>
                   mint_n(nf, c, n) = Ret(nf, "Overflow")

\* C17 witness: the maximum is MaxSupply, bob has minted that many items, ids from
\* 0, and bob's next mint_n(1) returns Overflow.
C17_Witness ==
    /\ nf.max_supply_opt = Some(MaxSupply)
    /\ nf.supply_cnt = MaxSupply
    /\ OwnedBy("bob") = 0 .. MaxSupply - 1
    /\ nf.is_minter["bob"] /\ ~nf.paused_flag
    /\ mint_n(nf, "bob", 1) = Ret(nf, "Overflow")

\* C18: ids start at 0 and are given out in sequence, never twice: next_id is 0
\* after construction and never decreases; every item with an owner has an id
\* below next_id; a successful mint_n(caller, n) gives the caller exactly the ids
\* next_id .. next_id + n - 1, none of which had an owner, and moves next_id past
\* them; and an id below next_id without an owner (a burned item) has no owner
\* after any step, further mints included.
C18_IdsNeverReused ==
    /\ nf.next_id = 0
    /\ [](/\ \A id \in Owned : id < nf.next_id
          /\ \A c \in Accounts, n \in Counts :
                 LET r == mint_n(nf, c, n)
                     new == nf.next_id .. (nf.next_id + n - 1)
                 IN  r.res = "Ok" =>
                         /\ r.st.next_id = nf.next_id + n
                         /\ new \cap Owned = {}
                         /\ DOMAIN r.st.owner_by_id = Owned \cup new
                         /\ \A id \in new : r.st.owner_by_id[id] = c
                         /\ \A id \in Owned : r.st.owner_by_id[id] = nf.owner_by_id[id])
    /\ [][/\ nf'.next_id >= nf.next_id
          /\ \A id \in 0 .. nf.next_id - 1 :
                 ~Has(nf.owner_by_id, id) => ~Has(nf'.owner_by_id, id)]_vars

\* C18 witness: item 0 was minted and burned; the next mint gives id 1 and leaves
\* id 0 without an owner.
C18_Witness ==
    /\ nf.next_id = 1
    /\ Owned = {}
    /\ mint_n(nf, "bob", 1).res = "Ok"
    /\ owner_of(mint_n(nf, "bob", 1).st, 1) = Some("bob")
    /\ owner_of(mint_n(nf, "bob", 1).st, 0) = None

\* Who may move an item that has an owner: the owner, the account approved for
\* that item, an operator the owner has approved.
MayMove(s, c, id) ==
    \/ owner_of(s, id) = Some(c)
    \/ get_approved(s, id) = Some(c)
    \/ is_approved_for_all(s, s.owner_by_id[id], c)

\* C19: on an unpaused registry, for an item with an owner: transfer by a caller
\* who is neither the owner, nor the item's approved account, nor an operator
\* approved by the owner returns NotApproved, whatever the destination, and leaves
\* the owner and the rest of the storage as they are; a transfer that succeeds
\* was called by one of the three; and each of the three succeeds for a
\* destination other than the owner, the item then belonging to the destination.
C19_TransferAuthorization ==
    \A c \in Accounts, x \in Accounts, id \in Owned :
        LET r == nf_transfer(nf, c, x, id)
        IN  ~nf.paused_flag =>
                /\ ~MayMove(nf, c, id) => r = Ret(nf, "NotApproved")
                /\ r.res = "Ok" => MayMove(nf, c, id)
                /\ (MayMove(nf, c, id) /\ owner_of(nf, id) # Some(x)) =>
                       /\ r.res = "Ok"
                       /\ owner_of(r.st, id) = Some(x)

\* C19 witness: bob owns item 0 and has made charlie an operator; nobody is
\* approved for item 0. charlie can move it to alice; alice cannot move it.
C19_Witness ==
    /\ ~nf.paused_flag
    /\ owner_of(nf, 0) = Some("bob")
    /\ get_approved(nf, 0) = None
    /\ is_approved_for_all(nf, "bob", "charlie")
    /\ nf_transfer(nf, "charlie", "alice", 0).res = "Ok"
    /\ owner_of(nf_transfer(nf, "charlie", "alice", 0).st, 0) = Some("alice")
    /\ nf_transfer(nf, "alice", "alice", 0) = Ret(nf, "NotApproved")

\* C20: after a successful transfer or burn of an item get_approved of it is None;
\* in every reachable state only items with an owner have an approval; a step
\* that changes an item's owner (or removes it) leaves the item without an
\* approval; and a step that sets or changes an item's approval is an approve
\* called by the item's owner, who stays the owner.
C20_ApprovalCleared ==
    /\ [](/\ DOMAIN nf.token_approval \subseteq Owned
          /\ \A c \in Accounts, x \in Accounts, id \in 0 .. MaxId :
                 nf_transfer(nf, c, x, id).res = "Ok" =>
                     get_approved(nf_transfer(nf, c, x, id).st, id) = None
          /\ \A c \in Accounts, id \in 0 .. MaxId :
                 nf_burn(nf, c, id).res = "Ok" =>
                     get_approved(nf_burn(nf, c, id).st, id) = None)
    /\ [][(nf'.owner_by_id # nf.owner_by_id \/ nf'.token_approval # nf.token_approval) =>
          \A id \in 0 .. MaxId :
              /\ owner_of(nf', id) # owner_of(nf, id) => get_approved(nf', id) = None
              /\ (get_approved(nf', id) # None /\ get_approved(nf', id) # get_approved(nf, id)) =>
                     /\ owner_of(nf, id) # None
                     /\ owner_of(nf', id) = owner_of(nf, id)
                     /\ \E x \in Accounts :
                            nf' = nf_approve(nf, nf.owner_by_id[id], x, id).st]_vars

\* C20 witness: bob owns item 0 and has approved charlie for it; charlie moves it
\* to alice, or bob burns it, and the approval is gone.
C20_Witness ==
    /\ ~nf.paused_flag
    /\ owner_of(nf, 0) = Some("bob")
    /\ get_approved(nf, 0) = Some("charlie")
    /\ nf_transfer(nf, "charlie", "alice", 0).res = "Ok"
    /\ get_approved(nf_transfer(nf, "charlie", "alice", 0).st, 0) = None
    /\ nf_burn(nf, "bob", 0).res = "Ok"
    /\ get_approved(nf_burn(nf, "bob", 0).st, 0) = None

\* ------------------------------------------------ claims C21 .. C30

\* C21: on an unpaused registry burn(caller, item) returns TokenMissing for an item
\* without an owner and NotOwner for a caller who is not the owner, the item's
\* approved account and the owner's operators included, each with the storage as
\* it was; the owner's burn succeeds: the item then has no owner, the owner's
\* count and supply_cnt are each one less, and every other item keeps its owner.
C21_BurnOwnerOnly ==
    \A c \in Accounts, id \in 0 .. MaxId :
        LET r == nf_burn(nf, c, id)
        IN  ~nf.paused_flag =>
                IF owner_of(nf, id) = None THEN r = Ret(nf, "TokenMissing")
                ELSE IF owner_of(nf, id) # Some(c) THEN r = Ret(nf, "NotOwner")
                ELSE /\ r.res = "Ok"
                     /\ owner_of(r.st, id) = None
                     /\ nf_balance_of(r.st, c) = nf_balance_of(nf, c) - 1
                     /\ \A o \in Accounts \ {c} : nf_balance_of(r.st, o) = nf_balance_of(nf, o)
                     /\ r.st.supply_cnt = nf.supply_cnt - 1
                     /\ \A other \in (0 .. MaxId) \ {id} : owner_of(r.st, other) = owner_of(nf, other)

\* C21 witness: bob owns items 0 and 1; charlie is approved for item 0 and is bob's
\* operator, and still cannot burn it; bob can.
C21_Witness ==
    /\ ~nf.paused_flag
    /\ owner_of(nf, 0) = Some("bob")
    /\ owner_of(nf, 1) = Some("bob")
    /\ get_approved(nf, 0) = Some("charlie")
    /\ is_approved_for_all(nf, "bob", "charlie")
    /\ nf_burn(nf, "charlie", 0) = Ret(nf, "NotOwner")
    /\ nf_burn(nf, "bob", 0).res = "Ok"
    /\ owner_of(nf_burn(nf, "bob", 0).st, 0) = None

\* C22: on an unpaused registry approve(caller, approved, item) returns TokenMissing
\* for an item without an owner and NotOwner for a caller who is not the owner,
\* the owner's operators and the item's approved account included, each with the
\* storage (the approval too) as it was; the owner's approve succeeds and writes
\* approved as the item's approval, changing nothing else.
C22_ApproveOwnerOnly ==
    \A c \in Accounts, x \in Accounts, id \in 0 .. MaxId :
        LET r == nf_approve(nf, c, x, id)
        IN  ~nf.paused_flag =>
                IF owner_of(nf, id) = None THEN r = Ret(nf, "TokenMissing")
                ELSE IF owner_of(nf, id) # Some(c) THEN r = Ret(nf, "NotOwner")
                ELSE /\ r.res = "Ok"
                     /\ get_approved(r.st, id) = Some(x)
                     /\ \A other \in (0 .. MaxId) \ {id} :
                            get_approved(r.st, other) = get_approved(nf, other)
                     /\ [r.st EXCEPT !.token_approval = nf.token_approval] = nf

\* C22 witness: bob owns item 0; charlie is approved for it and is bob's operator,
\* and cannot approve alice; bob can, which replaces charlie.
C22_Witness ==
    /\ ~nf.paused_flag
    /\ owner_of(nf, 0) = Some("bob")
    /\ get_approved(nf, 0) = Some("charlie")
    /\ is_approved_for_all(nf, "bob", "charlie")
    /\ nf_approve(nf, "charlie", "alice", 0) = Ret(nf, "NotOwner")
    /\ nf_approve(nf, "bob", "alice", 0).res = "Ok"
    /\ get_approved(nf_approve(nf, "bob", "alice", 0).st, 0) = Some("alice")

\* C23: on an unpaused registry set_approval_for_all(caller, operator, enabled)
\* returns SameAccount with the storage as it was when operator = caller, and
\* otherwise succeeds and writes enabled for the pair (caller, operator) and
\* nothing else; mint_n, transfer, burn and approve leave every operator approval
\* as it is, whatever they return; and a step that changes the approval of a pair
\* (o, p) is a set_approval_for_all(o, p, _) called by o.
C23_OperatorApproval ==
    /\ [](/\ ~nf.paused_flag =>
                \A c \in Accounts, x \in Accounts, f \in BOOLEAN :
                    set_approval_for_all(nf, c, x, f) =
                        IF x = c THEN Ret(nf, "SameAccount")
                        ELSE Ret([nf EXCEPT !.operator_approval = [@ EXCEPT ![<<c, x>>] = f]],
                                 "Ok")
          /\ \A c \in Accounts, n \in Counts :
                 mint_n(nf, c, n).st.operator_approval = nf.operator_approval
          /\ \A c \in Accounts, x \in Accounts, id \in 0 .. MaxId :
                 /\ nf_transfer(nf, c, x, id).st.operator_approval = nf.operator_approval
                 /\ nf_approve(nf, c, x, id).st.operator_approval = nf.operator_approval
          /\ \A c \in Accounts, id \in 0 .. MaxId :
                 nf_burn(nf, c, id).st.operator_approval = nf.operator_approval)
    /\ [][nf'.operator_approval # nf.operator_approval =>
              \A k \in Accounts \X Accounts :
                  nf'.operator_approval[k] # nf.operator_approval[k] =>
                      nf' = set_approval_for_all(nf, k[1], k[2], nf'.operator_approval[k]).st]_vars

\* C23 witness: bob made charlie his operator and has since parted with every
\* item he minted; the approval is still in force, bob can revoke it, and charlie
\* cannot name himself.
C23_Witness ==
    /\ ~nf.paused_flag
    /\ nf.next_id > 0
    /\ nf_balance_of(nf, "bob") = 0
    /\ is_approved_for_all(nf, "bob", "charlie")
    /\ ~is_approved_for_all(set_approval_for_all(nf, "bob", "charlie", FALSE).st, "bob", "charlie")
    /\ set_approval_for_all(nf, "charlie", "charlie", TRUE) = Ret(nf, "SameAccount")

\* The windows of size page from start_index on, one after the other.
RECURSIVE Pages(_, _, _, _)
Pages(s, owner_acc, start_index, page) ==
    IF start_index >= nf_balance_of(s, owner_acc) THEN << >>
    ELSE tokens_of(s, owner_acc, start_index, page)
             \o Pages(s, owner_acc, start_index + page, page)

\* C24: in every reachable state tokens_of(owner, start, limit) is empty when
\* start >= count or limit = 0, and otherwise lists, in slot order and skipping
\* none, the ids in slots start .. min(count, start + limit) - 1 of the owner, each
\* of them owned by the owner; and the windows of any size, one after the other,
\* list every id the owner owns exactly once.
C24_TokensOfWindow ==
    \A o \in Accounts :
        LET cnt == nf_balance_of(nf, o)
        IN  /\ \A start \in 0 .. MaxId + 1, limit \in 0 .. MaxId + 1 :
                   LET out == tokens_of(nf, o, start, limit)
                       hi == Min(cnt, start + limit)
                   IN  IF start >= cnt \/ limit = 0 THEN out = << >>
                       ELSE /\ Len(out) = hi - start
                            /\ \A i \in 1 .. Len(out) :
                                   /\ Has(nf.tokens_by_owner, <<o, start + i - 1>>)
                                   /\ out[i] = nf.tokens_by_owner[<<o, start + i - 1>>]
                                   /\ owner_of(nf, out[i]) = Some(o)
            /\ \A page \in 1 .. MaxId + 1 :
                   LET all == Pages(nf, o, 0, page)
                   IN  /\ Len(all) = Cardinality(OwnedBy(o))
                       /\ {all[i] : i \in 1 .. Len(all)} = OwnedBy(o)

\* C24 witness: bob holds items 0, 2, 1 in that slot order (1 went away and came
\* back); windows inside, across the end and past the end of his index.
C24_Witness ==
    /\ tokens_of(nf, "bob", 0, 3) = <<0, 2, 1>>
    /\ tokens_of(nf, "bob", 1, 1) = <<2>>
    /\ tokens_of(nf, "bob", 2, 3) = <<1>>
    /\ tokens_of(nf, "bob", 3, 1) = << >>
    /\ tokens_of(nf, "bob", 0, 0) = << >>
    /\ Pages(nf, "bob", 0, 2) = <<0, 2, 1>>

\* C25: from every reachable state of the ledger, the owner's set_pause(f) called
\* twice in a row succeeds both times, leaves paused_flag = f, and the storage
\* after the second call is the storage after the first, for f = TRUE and FALSE.
C25_SetPauseIdempotent ==
    \A f \in BOOLEAN :
        LET first == set_pause(moo, moo.owner_acc, f)
            second == set_pause(first.st, moo.owner_acc, f)
        IN  /\ first.res = "Ok" /\ second.res = "Ok"
            /\ first.st.paused_flag = f
            /\ second.st = first.st

\* C25 witness: a paused ledger with supply (the owner has called set_pause(TRUE)):
\* the owner's second set_pause(TRUE) succeeds and changes nothing.
C25_Witness ==
    /\ moo.paused_flag
    /\ moo.total_supply > 0
    /\ set_pause(moo, moo.owner_acc, TRUE) = Ret(moo, "Ok")

\* C25 on the registry: the same for its set_pause.
C25_SetPauseIdempotent_Registry ==
    \A f \in BOOLEAN :
        LET first == nf_set_pause(nf, nf.owner_acc, f)
            second == nf_set_pause(first.st, nf.owner_acc, f)
        IN  /\ first.res = "Ok" /\ second.res = "Ok"
            /\ first.st.paused_flag = f
            /\ second.st = first.st

\* What a swap-remove of item X from owner o does to o's index, from storage s to
\* storage t: the count drops by one; unless X was in the last slot, the item of
\* the last slot is in X's slot, and its reverse index says so; the last slot is
\* cleared; every other slot keeps its item; X is in none of o's slots.
SwapRemoved(s, t, o, X) ==
    LET n == s.owned_count[o]
        i == s.owned_index[X]
        last == s.tokens_by_owner[<<o, n - 1>>]
    IN  /\ t.owned_count[o] = n - 1
        /\ i # n - 1 =>
               /\ Has(t.tokens_by_owner, <<o, i>>)
               /\ t.tokens_by_owner[<<o, i>>] = last
               /\ Has(t.owned_index, last)
               /\ t.owned_index[last] = i
        /\ ~Has(t.tokens_by_owner, <<o, n - 1>>)
        /\ \A j \in 0 .. n - 2 :
               j # i => /\ Has(t.tokens_by_owner, <<o, j>>)
                        /\ t.tokens_by_owner[<<o, j>>] = s.tokens_by_owner[<<o, j>>]
                        /\ t.owned_index[s.tokens_by_owner[<<o, j>>]] = j
        /\ \A j \in 0 .. n - 2 : t.tokens_by_owner[<<o, j>>] # X

\* C26: for every item X with an owner o, remove_token_from_owner(o, X) succeeds
\* and is a swap-remove that leaves X without a reverse index; the owner's burn of
\* X is the same; and a transfer of X by the owner to another account is a
\* swap-remove on o's index, X going to the destination's next slot.
C26_SwapRemove ==
    \A X \in Owned :
        LET o == nf.owner_by_id[X]
            r == remove_token_from_owner(nf, o, X)
            b == nf_burn(nf, o, X)
        IN  /\ r.res = "Ok"
            /\ SwapRemoved(nf, r.st, o, X)
            /\ ~Has(r.st.owned_index, X)
            /\ ~nf.paused_flag =>
                   /\ b.res = "Ok"
                   /\ SwapRemoved(nf, b.st, o, X)
                   /\ ~Has(b.st.owned_index, X)
                   /\ \A x \in Accounts \ {o} :
                          LET t == nf_transfer(nf, o, x, X)
                          IN  /\ t.res = "Ok"
                              /\ SwapRemoved(nf, t.st, o, X)
                              /\ t.st.owned_index[X] = nf.owned_count[x]
                              /\ t.st.tokens_by_owner[<<x, nf.owned_count[x]>>] = X

\* C26 witness: bob holds items 0, 1, 2 in slots 0, 1, 2 and transfers item 1 to
\* charlie: bob's slots then hold 0, 2.
C26_Witness ==
    /\ ~nf.paused_flag
    /\ tokens_of(nf, "bob", 0, 3) = <<0, 1, 2>>
    /\ nf_transfer(nf, "bob", "charlie", 1).res = "Ok"
    /\ nf_balance_of(nf_transfer(nf, "bob", "charlie", 1).st, "bob") = 2
    /\ tokens_of(nf_transfer(nf, "bob", "charlie", 1).st, "bob", 0, 10) = <<0, 2>>
    /\ nf_transfer(nf, "bob", "charlie", 1).st.owned_index[2] = 1

\* C27: on an unpaused registry mint_n(caller, count) returns AmountZero for
\* count 0, a minter or not; else Unauthorized for a non-minter, a count above
\* MAX_PER_CALL included; else Overflow for a count above MAX_PER_CALL; each with
\* the storage (supply, next id, ownership) as it was. Only a minter's count of
\* 1 .. MAX_PER_CALL reaches the loop, MAX_PER_CALL itself included.
C27_MintValidationOrder ==
    ~nf.paused_flag =>
        \A c \in Accounts :
            /\ mint_n(nf, c, 0) = Ret(nf, "AmountZero")
            /\ ~nf.is_minter[c] =>
                   \A n \in Counts \ {0} : mint_n(nf, c, n) = Ret(nf, "Unauthorized")
            /\ nf.is_minter[c] =>
                   /\ \A n \in {MAX_PER_CALL + 1, MAX_PER_CALL + 2} :
                          mint_n(nf, c, n) = Ret(nf, "Overflow")
                   /\ \A n \in 1 .. MaxBatch + 1 : mint_n(nf, c, n) = mint_loop(nf, c, n)
                   /\ (nf.max_supply_opt # None /\ nf.supply_cnt < nf.max_supply_opt[1]) =>
                          mint_n(nf, c, MAX_PER_CALL).st.next_id > nf.next_id

\* C27 witness: bob is a minter with an item, charlie is not a minter: charlie gets
\* AmountZero for 0 and Unauthorized for a count above the ceiling, bob gets
\* Overflow for it and mints with a count of 1.
C27_Witness ==
    /\ ~nf.paused_flag
    /\ nf.is_minter["bob"] /\ ~nf.is_minter["charlie"]
    /\ owner_of(nf, 0) = Some("bob")
    /\ mint_n(nf, "charlie", 0) = Ret(nf, "AmountZero")
    /\ mint_n(nf, "charlie", MAX_PER_CALL + 1) = Ret(nf, "Unauthorized")
    /\ mint_n(nf, "bob", MAX_PER_CALL + 1) = Ret(nf, "Overflow")
    /\ mint_n(nf, "bob", 1).res = "Ok"

\* C28: on an unpaused registry transfer(caller, to, item) returns TokenMissing for
\* an item without an owner, whoever calls; for an item with an owner NotApproved
\* to a caller who may not move it, also when to is the owner; SameAccount only to
\* a caller who may move it and names the owner as to; each of the three with the
\* storage (ownership, indexes, the approval) as it was; and it succeeds otherwise.
C28_TransferErrorOrder ==
    ~nf.paused_flag =>
        \A c \in Accounts, x \in Accounts, id \in 0 .. MaxId :
            LET r == nf_transfer(nf, c, x, id)
            IN  /\ IF owner_of(nf, id) = None THEN r = Ret(nf, "TokenMissing")
                   ELSE IF ~MayMove(nf, c, id) THEN r = Ret(nf, "NotApproved")
                   ELSE IF owner_of(nf, id) = Some(x) THEN r = Ret(nf, "SameAccount")
                   ELSE r.res = "Ok"
                /\ r.res = "SameAccount" =>
                       (owner_of(nf, id) = Some(x) /\ MayMove(nf, c, id))

\* C28 witness: bob owns item 0 with charlie approved for it; item 2 has no owner.
\* alice sending item 0 to bob gets NotApproved, bob and charlie get SameAccount,
\* and item 2 is missing for everyone.
C28_Witness ==
    /\ ~nf.paused_flag
    /\ owner_of(nf, 0) = Some("bob")
    /\ get_approved(nf, 0) = Some("charlie")
    /\ owner_of(nf, 2) = None
    /\ nf_transfer(nf, "alice", "bob", 0) = Ret(nf, "NotApproved")
    /\ nf_transfer(nf, "bob", "bob", 0) = Ret(nf, "SameAccount")
    /\ nf_transfer(nf, "charlie", "bob", 0) = Ret(nf, "SameAccount")
    /\ nf_transfer(nf, "bob", "alice", 2) = Ret(nf, "TokenMissing")

\* What a pause of the registry protects: supply, ids, ownership, indexes, approvals.
RegData(s) ==
    <<s.supply_cnt, s.next_id, s.owner_by_id, s.owned_count, s.tokens_by_owner,
      s.owned_index, s.token_approval, s.operator_approval>>

\* C29: in every paused state of the registry the owner's set_pause and set_minter
\* succeed; the owner's set_pause(FALSE) changes the flag only, and in the storage
\* it leaves no mutating message returns Paused; and no step taken while paused
\* changes supply, ownership, indexes or approvals, so these are then as they
\* were when the pause began.
C29_PauseNotTerminal ==
    /\ [](nf.paused_flag =>
            LET u == nf_set_pause(nf, nf.owner_acc, FALSE).st
            IN  /\ \A f \in BOOLEAN :
                       /\ nf_set_pause(nf, nf.owner_acc, f).res = "Ok"
                       /\ \A m \in Accounts : nf_set_minter(nf, nf.owner_acc, m, f).res = "Ok"
                /\ u = [nf EXCEPT !.paused_flag = FALSE]
                /\ \A c \in Accounts :
                       /\ \A n \in Counts : mint_n(u, c, n).res # "Paused"
                       /\ \A x \in Accounts, id \in 0 .. MaxId :
                              /\ nf_transfer(u, c, x, id).res # "Paused"
                              /\ nf_approve(u, c, x, id).res # "Paused"
                       /\ \A id \in 0 .. MaxId : nf_burn(u, c, id).res # "Paused"
                       /\ \A x \in Accounts, f \in BOOLEAN :
                              set_approval_for_all(u, c, x, f).res # "Paused"
                /\ \A id \in Owned :
                       /\ nf_transfer(u, nf.owner_by_id[id], nf.owner_acc, id).res
                              \in {"Ok", "SameAccount"}
                       /\ nf_burn(u, nf.owner_by_id[id], id).res = "Ok")
    /\ [][nf.paused_flag /\ nf' # nf => RegData(nf') = RegData(nf)]_vars

\* C29 witness: a paused registry in which bob, a minter, owns item 0 with charlie
\* approved for it: the owner can make charlie a minter and lift the pause, after
\* which bob's transfer and mint_n succeed.
C29_Witness ==
    /\ nf.paused_flag
    /\ nf.is_minter["bob"]
    /\ nf.next_id < MaxId
    /\ owner_of(nf, 0) = Some("bob")
    /\ get_approved(nf, 0) = Some("charlie")
    /\ nf_set_minter(nf, nf.owner_acc, "charlie", TRUE).res = "Ok"
    /\ nf_set_pause(nf, nf.owner_acc, FALSE).res = "Ok"
    /\ nf_transfer(nf_set_pause(nf, nf.owner_acc, FALSE).st, "bob", "alice", 0).res = "Ok"
    /\ mint_n(nf_set_pause(nf, nf.owner_acc, FALSE).st, "bob", 1).st.next_id = nf.next_id + 1

\* C29 on the ledger: the same for moo/logic.rs.
C29_PauseNotTerminal_Ledger ==
    /\ [](moo.paused_flag =>
            LET u == set_pause(moo, moo.owner_acc, FALSE).st
            IN  /\ \A f \in BOOLEAN :
                       /\ set_pause(moo, moo.owner_acc, f).res = "Ok"
                       /\ \A m \in Accounts : set_minter(moo, moo.owner_acc, m, f).res = "Ok"
                /\ u = [moo EXCEPT !.paused_flag = FALSE]
                /\ \A c \in Accounts, n \in Amounts :
                       /\ mint(u, c, n).res # "Paused"
                       /\ burn(u, c, n).res # "Paused"
                       /\ \A x \in Accounts :
                              /\ transfer(u, c, x, n).res # "Paused"
                              /\ approve(u, c, x, n).res # "Paused"
                              /\ increase_allowance(u, c, x, n).res # "Paused"
                              /\ decrease_allowance(u, c, x, n).res = "Ok"
                              /\ \A y \in Accounts : transfer_from(u, c, x, y, n).res # "Paused")
    /\ [][moo.paused_flag /\ moo' # moo => LedgerData(moo') = LedgerData(moo)]_vars

\* C30: in every reachable state of the ledger total_supply is the sum of the
\* balances and is at most AmountMax, and no call of burn, transfer or
\* transfer_from returns Overflow, whatever its caller and arguments; neither
\* does approve, decrease_allowance, set_pause or set_minter. A burn, transfer or
\* transfer_from that passes its checks (pause, amount, accounts, balance,
\* allowance) therefore succeeds.
C30_OverflowUnreachable ==
    /\ moo.total_supply = SumOver(moo.balances, Accounts)
    /\ moo.total_supply <= AmountMax
    /\ \A c \in Accounts, n \in Amounts :
           /\ burn(moo, c, n).res # "Overflow"
           /\ (~moo.paused_flag /\ n # 0 /\ balance_of(moo, c) >= n)
                  => burn(moo, c, n).res = "Ok"
           /\ \A x \in Accounts :
                  /\ transfer(moo, c, x, n).res # "Overflow"
                  /\ (~moo.paused_flag /\ n # 0 /\ c # x /\ balance_of(moo, c) >= n)
                         => transfer(moo, c, x, n).res = "Ok"
                  /\ approve(moo, c, x, n).res # "Overflow"
                  /\ decrease_allowance(moo, c, x, n).res # "Overflow"
                  /\ \A y \in Accounts :
                         /\ transfer_from(moo, c, x, y, n).res # "Overflow"
                         /\ (~moo.paused_flag /\ n # 0 /\ x # y
                                 /\ balance_of(moo, x) >= n /\ allowance(moo, x, c) >= n)
                                => transfer_from(moo, c, x, y, n).res = "Ok"
           /\ \A f \in BOOLEAN :
                  /\ set_pause(moo, c, f).res # "Overflow"
                  /\ \A m \in Accounts : set_minter(moo, c, m, f).res # "Overflow"

\* C30 witness: the supply is at AmountMax, held by bob and charlie, and charlie's
\* allowance to bob is at AmountMax. Charlie's burn, charlie's transfer to bob and
\* bob's transfer_from charlie to bob pass the balance check and succeed, bob's
\* balance reaching AmountMax, while a minter's mint and charlie's
\* increase_allowance return Overflow.
C30_Witness ==
    /\ ~moo.paused_flag
    /\ moo.total_supply = AmountMax
    /\ balance_of(moo, "bob") = AmountMax - 1
    /\ balance_of(moo, "charlie") = 1
    /\ allowance(moo, "charlie", "bob") = AmountMax
    /\ burn(moo, "charlie", 1).res = "Ok"
    /\ balance_of(transfer(moo, "charlie", "bob", 1).st, "bob") = AmountMax
    /\ transfer_from(moo, "bob", "charlie", "bob", 1).res = "Ok"
    /\ \E m \in Accounts : moo.is_minter[m] /\ mint(moo, m, 1).res = "Overflow"
    /\ increase_allowance(moo, "charlie", "bob", 1).res = "Overflow"

\* C31: in every reachable state of the registry supply_cnt is the number of item
\* ids that have an owner, which is the sum of balance_of over the accounts; so
\* burn never returns Overflow, whoever calls it for whichever id, and on an
\* unpaused registry the owner's burn of an item succeeds and lowers all three by one.
C31_SupplyCountsOwned ==
    /\ nf.supply_cnt = Cardinality(Owned)
    /\ nf.supply_cnt = SumOver([o \in Accounts |-> nf_balance_of(nf, o)], Accounts)
    /\ \A o \in Accounts : nf_balance_of(nf, o) = Cardinality(OwnedBy(o))
    /\ \A c \in Accounts, id \in 0 .. MaxId :
           LET r == nf_burn(nf, c, id)
           IN  /\ r.res # "Overflow"
               /\ (~nf.paused_flag /\ owner_of(nf, id) = Some(c)) =>
                      /\ r.res = "Ok"
                      /\ r.st.supply_cnt = nf.supply_cnt - 1
                      /\ DOMAIN r.st.owner_by_id = Owned \ {id}
                      /\ nf_balance_of(r.st, c) = nf_balance_of(nf, c) - 1

\* C31 witness: three ids were minted and one of them burned; bob and another
\* account hold the two that remain, and bob's burn of his item brings the
\* supply to one.
C31_Witness ==
    /\ ~nf.paused_flag
    /\ nf.next_id = 3
    /\ nf.supply_cnt = 2
    /\ nf_balance_of(nf, "bob") = 1
    /\ \E o \in Accounts \ {"bob"} : nf_balance_of(nf, o) = 1
    /\ \E id \in OwnedBy("bob") :
           /\ nf_burn(nf, "bob", id).res = "Ok"
           /\ nf_burn(nf, "bob", id).st.supply_cnt = 1

\* C32: on an unpaused registry, after a successful transfer of item X from its
\* owner o to n, which leaves the same storage whoever of the owner, the approved
\* account and the operators made it: the operator approvals are what they were and X has no
\* single-item approval; every account other than n that is not an operator of n
\* gets NotApproved, with the storage untouched, when it tries to transfer X,
\* whatever authority over X it had under o; once n approves it for X or makes it
\* an operator it can transfer X; and an operator of o can still transfer every
\* item o still owns. Moreover a step that gives an account authority over an
\* item whose owner stays the same is that owner's approve or set_approval_for_all.
C32_AuthorityFollowsOwner ==
    /\ [](~nf.paused_flag =>
            \A X \in Owned : \A n \in Accounts \ {nf.owner_by_id[X]} :
                LET o == nf.owner_by_id[X]
                    t == nf_transfer(nf, o, n, X).st
                IN  /\ \A c \in Accounts :
                           nf_transfer(nf, c, n, X).res = "Ok" =>
                               nf_transfer(nf, c, n, X).st = t
                    /\ nf_transfer(nf, o, n, X).res = "Ok"
                    /\ owner_of(t, X) = Some(n)
                    /\ t.operator_approval = nf.operator_approval
                    /\ get_approved(t, X) = None
                    /\ \A a \in Accounts \ {n} :
                           /\ ~is_approved_for_all(t, n, a) =>
                                  /\ \A y \in Accounts :
                                         nf_transfer(t, a, y, X) = Ret(t, "NotApproved")
                                  /\ \A y \in Accounts \ {n} :
                                         /\ nf_transfer(nf_approve(t, n, a, X).st,
                                                        a, y, X).res = "Ok"
                                         /\ nf_transfer(set_approval_for_all(t, n, a, TRUE).st,
                                                        a, y, X).res = "Ok"
                           /\ is_approved_for_all(t, n, a) =>
                                  \A y \in Accounts \ {n} : nf_transfer(t, a, y, X).res = "Ok"
                    /\ \A Z \in OwnedBy(o) \ {X}, p \in Accounts :
                           is_approved_for_all(nf, o, p) =>
                               /\ owner_of(t, Z) = Some(o)
                               /\ is_approved_for_all(t, o, p)
                               /\ \A y \in Accounts \ {o} :
                                      nf_transfer(t, p, y, Z).res = "Ok")
    /\ [][(nf'.token_approval # nf.token_approval
                \/ nf'.operator_approval # nf.operator_approval) =>
            \A id \in Owned, a \in Accounts :
                (/\ owner_of(nf', id) = owner_of(nf, id)
                 /\ ~MayMove(nf, a, id)
                 /\ MayMove(nf', a, id))
                    => \/ nf' = nf_approve(nf, nf.owner_by_id[id], a, id).st
                       \/ nf' = set_approval_for_all(nf, nf.owner_by_id[id], a, TRUE).st]_vars

\* C32 witness: bob owns items 0 and 1, has made charlie an operator and has
\* approved charlie for item 0. After bob's transfer of item 0 to alice, charlie
\* gets NotApproved for item 0, can still move bob's item 1, and can move item 0
\* again once alice approves charlie for it.
C32_Witness ==
    /\ ~nf.paused_flag
    /\ owner_of(nf, 0) = Some("bob") /\ owner_of(nf, 1) = Some("bob")
    /\ is_approved_for_all(nf, "bob", "charlie")
    /\ get_approved(nf, 0) = Some("charlie")
    /\ ~is_approved_for_all(nf, "alice", "charlie")
    /\ nf_transfer(nf, "charlie", "alice", 0).res = "Ok"
    /\ LET t == nf_transfer(nf, "bob", "alice", 0).st
       IN  /\ owner_of(t, 0) = Some("alice")
           /\ nf_transfer(t, "charlie", "bob", 0) = Ret(t, "NotApproved")
           /\ nf_transfer(t, "charlie", "alice", 1).res = "Ok"
           /\ nf_transfer(nf_approve(t, "alice", "charlie", 0).st, "charlie", "bob", 0).res = "Ok"

====
